---------------------------- MODULE Spec2Model ----------------------------
(***************************************************************************)
(* A model of rttp's request pipeline: the header map, the wire codec      *)
(* (Request::parse over httparse, Response::into_bytes) and the connection *)
(* engine (handle_connection).                                             *)
(*                                                                         *)
(* Bytes are ASCII codes and strings are sequences of bytes, so that       *)
(* case-insensitive comparison, header lookup and parsing are computed.    *)
(***************************************************************************)
EXTENDS Integers, Sequences, FiniteSets, TLC

NONE == "none"

\* Option<T>: None is the empty tuple, Some(x) the tuple of x.
None == <<>>
Some(x) == <<x>>
IsSome(o) == o # <<>>
Unwrap(o) == o[1]

(***************************************************************************)
(* Bounds of the model.                                                    *)
(***************************************************************************)
\* Stands for the MiB of the 8 MiB cap: the model's cap is 8 * ScaledMiB bytes.
ScaledMiB == 8
\* A read delivers 1..MaxRead bytes, or everything the peer has sent so far.
MaxRead == 2
\* The width of usize in bits (64 on the usual targets).
USIZE_BITS == 8

(***************************************************************************)
(* Strings.                                                                *)
(***************************************************************************)
STR_connection == <<99, 111, 110, 110, 101, 99, 116, 105, 111, 110>>  \* "connection"
STR_content_length == <<99, 111, 110, 116, 101, 110, 116, 45, 108, 101, 110, 103, 116, 104>>  \* "content-length"
STR_content_type == <<99, 111, 110, 116, 101, 110, 116, 45, 116, 121, 112, 101>>  \* "content-type"
STR_keep_alive == <<107, 101, 101, 112, 45, 97, 108, 105, 118, 101>>  \* "keep-alive"
STR_close == <<99, 108, 111, 115, 101>>  \* "close"
STR_Connection == <<67, 111, 110, 110, 101, 99, 116, 105, 111, 110>>  \* "Connection"
STR_Content_Length == <<67, 111, 110, 116, 101, 110, 116, 45, 76, 101, 110, 103, 116, 104>>  \* "Content-Length"
STR_Content_Type == <<67, 111, 110, 116, 101, 110, 116, 45, 84, 121, 112, 101>>  \* "Content-Type"
STR_text_plain == <<116, 101, 120, 116, 47, 112, 108, 97, 105, 110, 59, 32, 99, 104, 97, 114, 115, 101, 116, 61, 117, 116, 102, 45, 56>>  \* "text/plain; charset=utf-8"
STR_too_large == <<82, 101, 113, 117, 101, 115, 116, 32, 101, 110, 116, 105, 116, 121, 32, 116, 111, 111, 32, 108, 97, 114, 103, 101>>  \* "Request entity too large"
STR_bad_request == <<66, 97, 100, 32, 82, 101, 113, 117, 101, 115, 116, 58, 32>>  \* "Bad Request: "
STR_HTTP1 == <<72, 84, 84, 80, 47, 49, 46>>  \* "HTTP/1."
STR_colon_sp == <<58, 32>>  \* ": "
CRLF == <<13, 10>>  \* "\r\n"

\* u8::to_ascii_lowercase: 'A'..'Z' (65..90) map to 'a'..'z', every other byte to itself.
to_ascii_lowercase(b) == IF b >= 65 /\ b <= 90 THEN b + 32 ELSE b

\* str::eq_ignore_ascii_case: same length and equal bytes after ASCII lowercasing.
eq_ignore_ascii_case(a, b) ==
    /\ Len(a) = Len(b)
    /\ \A i \in 1..Len(a) : to_ascii_lowercase(a[i]) = to_ascii_lowercase(b[i])

RECURSIVE split(_, _)
\* str::split(sep) for a one-byte separator: the pieces between separators,
\* empty ones included.
split(s, sep) ==
    IF \A i \in 1..Len(s) : s[i] # sep THEN <<s>>
    ELSE LET i == CHOOSE i \in 1..Len(s) : s[i] = sep /\ \A j \in 1..(i - 1) : s[j] # sep
         IN <<SubSeq(s, 1, i - 1)>> \o split(SubSeq(s, i + 1, Len(s)), sep)

\* str::replace('+', " ").
replace_plus(s) == [i \in 1..Len(s) |-> IF s[i] = 43 THEN 32 ELSE s[i]]

\* A HashMap is the set of its <<key, value>> pairs.
\* HashMap::get: the value of the key, None when absent.
HashMap_get(map, key) ==
    IF \E kv \in map : kv[1] = key
    THEN Some((CHOOSE kv \in map : kv[1] = key)[2])
    ELSE None

\* HashMap::insert: the map with the key bound to the value only, and the value
\* it was bound to before.
HashMap_insert(map, key, value) ==
    [map |-> {kv \in map : kv[1] # key} \cup {<<key, value>>}, old |-> HashMap_get(map, key)]

\* HashMap::remove: the map without the key, and the value it was bound to.
HashMap_remove(map, key) ==
    [map |-> {kv \in map : kv[1] # key}, old |-> HashMap_get(map, key)]

(***************************************************************************)
(* Headers: Vec<(String, String)>, a sequence of <<name, value>> pairs.    *)
(***************************************************************************)
Headers_new == <<>>

Headers_insert(h, name, value) == Append(h, <<name, value>>)

\* The least index whose name matches, 0 when there is none (Iterator::find).
Headers_find(h, name) ==
    IF \E i \in 1..Len(h) : eq_ignore_ascii_case(h[i][1], name)
    THEN CHOOSE i \in 1..Len(h) :
            /\ eq_ignore_ascii_case(h[i][1], name)
            /\ \A j \in 1..(i - 1) : ~eq_ignore_ascii_case(h[j][1], name)
    ELSE 0

\* get comparing the names byte for byte.
Headers_get_exact(h, name) ==
    IF \E i \in 1..Len(h) : h[i][1] = name
    THEN Some(h[CHOOSE i \in 1..Len(h) : h[i][1] = name /\ \A j \in 1..(i - 1) : h[j][1] # name][2])
    ELSE None

\* Headers::get: the first value for the name, None when absent.
Headers_get(h, name) ==
    IF Headers_find(h, name) = 0 THEN None ELSE Some(h[Headers_find(h, name)][2])

Headers_contains(h, name) == \E i \in 1..Len(h) : eq_ignore_ascii_case(h[i][1], name)

RECURSIVE Headers_get_all(_, _)
\* Headers::get_all, collected: the values of the matching entries as the filter
\* over iter() yields them.
Headers_get_all(h, name) ==
    IF h = <<>> THEN <<>>
    ELSE IF eq_ignore_ascii_case(h[1][1], name)
         THEN <<h[1][2]>> \o Headers_get_all(Tail(h), name)
         ELSE Headers_get_all(Tail(h), name)

RECURSIVE retain(_, _)
\* Vec::retain with the closure of Headers::remove: the entries whose name does
\* not match, in their order.
retain(h, name) ==
    IF h = <<>> THEN <<>>
    ELSE IF ~eq_ignore_ascii_case(h[1][1], name)
         THEN <<h[1]>> \o retain(Tail(h), name)
         ELSE retain(Tail(h), name)

\* remove that drops the first matching entry only.
Headers_remove_First(h, name) ==
    LET i == Headers_find(h, name)
        inner == IF i = 0 THEN h ELSE SubSeq(h, 1, i - 1) \o SubSeq(h, i + 1, Len(h))
    IN [inner |-> inner, removed |-> Len(inner) < Len(h)]

\* Headers::remove: the entries left and the bool returned.
Headers_remove(h, name) ==
    [inner |-> retain(h, name), removed |-> Len(retain(h, name)) < Len(h)]

Headers_len(h) == Len(h)

(***************************************************************************)
(* httparse::Request::parse, the scanner Request::parse runs over the      *)
(* buffer: a request line, header lines, and an empty line. It reports     *)
(* Partial when the bytes end before the empty line, an error on the first *)
(* byte that cannot continue a request, and Complete with the offset of    *)
(* the first byte after the empty line.                                    *)
(***************************************************************************)
MAX_HEADERS == 64

CR == CRLF[1]
LF == CRLF[2]
COLON == STR_colon_sp[1]
SP == STR_colon_sp[2]
\* Optional whitespace: space and horizontal tab.
OWS == {SP, 9}

\* tchar of RFC 9110: the bytes of a method and of a header name.
is_token(b) ==
    \/ b >= 48 /\ b <= 57
    \/ b >= 65 /\ b <= 90
    \/ b >= 97 /\ b <= 122
    \/ b \in {33, 35, 36, 37, 38, 39, 42, 43, 45, 46, 94, 95, 96, 124, 126}

\* The bytes of a request target: visible ASCII.
is_uri_token(b) == b >= 33 /\ b <= 126

\* The bytes of a header value: HTAB and printable ASCII.
is_header_value_token(b) == b = 9 \/ (b >= 32 /\ b <= 126)

ScanInit ==
    [st |-> "start", k |-> 0, method |-> None, path |-> None, version |-> None,
     name |-> <<>>, value |-> <<>>, headers |-> <<>>, err |-> NONE]

ScanError(s, e) == [s EXCEPT !.st = "error", !.err = e]

RECURSIVE TrimEnd(_)
\* Trailing spaces and tabs are not part of a header value.
TrimEnd(v) ==
    IF Len(v) > 0 /\ v[Len(v)] \in OWS THEN TrimEnd(SubSeq(v, 1, Len(v) - 1)) ELSE v

\* A header line ended: its name and trimmed value join the parsed headers.
ScanHeaderDone(s) ==
    [s EXCEPT !.st = "hdr_start",
              !.headers = Append(s.headers, <<s.name, TrimEnd(s.value)>>),
              !.name = <<>>, !.value = <<>>]

\* A byte of a header value (or the end of the line).
ScanValueByte(s, b) ==
    IF b = CR THEN [s EXCEPT !.st = "hdr_cr"]
    ELSE IF b = LF THEN ScanHeaderDone(s)
    ELSE IF is_header_value_token(b) THEN [s EXCEPT !.st = "hdr_value", !.value = Append(s.value, b)]
    ELSE ScanError(s, "HeaderValue")

\* One byte of input.
ScanStep(s, b) ==
    CASE s.st = "start" ->
            IF b = CR THEN [s EXCEPT !.st = "start_cr"]
            ELSE IF b = LF THEN s
            ELSE IF is_token(b) THEN [s EXCEPT !.st = "method", !.method = Some(<<b>>)]
            ELSE ScanError(s, "Token")
      [] s.st = "start_cr" ->
            IF b = LF THEN [s EXCEPT !.st = "start"] ELSE ScanError(s, "NewLine")
      [] s.st = "method" ->
            IF b = SP THEN [s EXCEPT !.st = "uri0"]
            ELSE IF is_token(b) THEN [s EXCEPT !.method = Some(Append(Unwrap(s.method), b))]
            ELSE ScanError(s, "Token")
      [] s.st = "uri0" ->
            IF is_uri_token(b) THEN [s EXCEPT !.st = "uri", !.path = Some(<<b>>)]
            ELSE ScanError(s, "Token")
      [] s.st = "uri" ->
            IF b = SP THEN [s EXCEPT !.st = "version", !.k = 0]
            ELSE IF is_uri_token(b) THEN [s EXCEPT !.path = Some(Append(Unwrap(s.path), b))]
            ELSE ScanError(s, "Token")
      [] s.st = "version" ->
            IF s.k < Len(STR_HTTP1)
            THEN IF b = STR_HTTP1[s.k + 1] THEN [s EXCEPT !.k = s.k + 1]
                 ELSE ScanError(s, "Version")
            ELSE IF b = 48 THEN [s EXCEPT !.st = "rl_end", !.version = Some(0)]
            ELSE IF b = 49 THEN [s EXCEPT !.st = "rl_end", !.version = Some(1)]
            ELSE ScanError(s, "Version")
      [] s.st = "rl_end" ->
            IF b = CR THEN [s EXCEPT !.st = "rl_cr"]
            ELSE IF b = LF THEN [s EXCEPT !.st = "hdr_start"]
            ELSE ScanError(s, "NewLine")
      [] s.st = "rl_cr" ->
            IF b = LF THEN [s EXCEPT !.st = "hdr_start"] ELSE ScanError(s, "NewLine")
      [] s.st = "hdr_start" ->
            IF b = CR THEN [s EXCEPT !.st = "end_cr"]
            ELSE IF b = LF THEN [s EXCEPT !.st = "complete"]
            ELSE IF ~is_token(b) THEN ScanError(s, "HeaderName")
            ELSE IF Len(s.headers) = MAX_HEADERS THEN ScanError(s, "TooManyHeaders")
            ELSE [s EXCEPT !.st = "hdr_name", !.name = <<b>>]
      [] s.st = "end_cr" ->
            IF b = LF THEN [s EXCEPT !.st = "complete"] ELSE ScanError(s, "NewLine")
      [] s.st = "hdr_name" ->
            IF b = COLON THEN [s EXCEPT !.st = "hdr_ows"]
            ELSE IF is_token(b) THEN [s EXCEPT !.name = Append(s.name, b)]
            ELSE ScanError(s, "HeaderName")
      [] s.st = "hdr_ows" ->
            IF b \in OWS THEN s ELSE ScanValueByte(s, b)
      [] s.st = "hdr_value" -> ScanValueByte(s, b)
      [] s.st = "hdr_cr" ->
            IF b = LF THEN ScanHeaderDone(s) ELSE ScanError(s, "HeaderValue")
      [] OTHER -> s

RECURSIVE Scan(_, _, _)
\* Scans buf from byte i in scanner state s.
Scan(buf, i, s) ==
    IF s.st = "error" THEN [status |-> "Error", err |-> s.err]
    ELSE IF s.st = "complete"
    THEN [status |-> "Complete", offset |-> i - 1, method |-> s.method, path |-> s.path,
          version |-> s.version, headers |-> s.headers]
    ELSE IF i > Len(buf) THEN [status |-> "Partial"]
    ELSE Scan(buf, i + 1, ScanStep(s, buf[i]))

httparse_parse(buf) == Scan(buf, 1, ScanInit)

(***************************************************************************)
(* Request (src/http/request.rs).                                          *)
(***************************************************************************)
USIZE_MAX == 2 ^ USIZE_BITS - 1

\* The index of the first '?' of a path, 0 when there is none (str::find).
FindQuery(raw_path) ==
    IF \E i \in 1..Len(raw_path) : raw_path[i] = 63
    THEN CHOOSE i \in 1..Len(raw_path) :
            raw_path[i] = 63 /\ \A j \in 1..(i - 1) : raw_path[j] # 63
    ELSE 0

\* The closure of filter_map: the pair split at its first '=' (splitn(2, '=')),
\* the value empty when there is none, '+' decoded in both.
query_pair(pair) ==
    IF \E i \in 1..Len(pair) : pair[i] = 61
    THEN LET i == CHOOSE i \in 1..Len(pair) : pair[i] = 61 /\ \A j \in 1..(i - 1) : pair[j] # 61
         IN <<replace_plus(SubSeq(pair, 1, i - 1)), replace_plus(SubSeq(pair, i + 1, Len(pair)))>>
    ELSE <<replace_plus(pair), <<>>>>

RECURSIVE collect(_, _, _)
\* collect::<HashMap<_, _>>() of the pairs from the i-th on into map: each is
\* inserted in turn.
collect(pairs, i, map) ==
    IF i > Len(pairs) THEN map
    ELSE collect(pairs, i + 1, HashMap_insert(map, query_pair(pairs[i])[1], query_pair(pairs[i])[2]).map)

RECURSIVE collect_FirstWins(_, _, _)
collect_FirstWins(pairs, i, map) ==
    IF i > Len(pairs) THEN map
    ELSE collect_FirstWins(pairs, i + 1,
            IF IsSome(HashMap_get(map, query_pair(pairs[i])[1])) THEN map
            ELSE HashMap_insert(map, query_pair(pairs[i])[1], query_pair(pairs[i])[2]).map)

\* parse_query_string keeping the first value of a key (entry().or_insert).
parse_query_string_FirstWins(query) == collect_FirstWins(split(query, 38), 1, {})

\* parse_query_string.
parse_query_string(query) == collect(split(query, 38), 1, {})

\* Request::parse after raw_req.parse(buf) returned raw_req.
Request_build(buf, raw_req) ==
    IF raw_req.status = "Error" THEN [tag |-> "Err", kind |-> "Parse", detail |-> raw_req.err]
    ELSE IF raw_req.status = "Partial" THEN [tag |-> "Err", kind |-> "Incomplete", detail |-> <<>>]
    ELSE IF raw_req.method = None THEN [tag |-> "Err", kind |-> "MissingField", detail |-> <<109, 101, 116, 104, 111, 100>>]
    ELSE IF raw_req.path = None THEN [tag |-> "Err", kind |-> "MissingField", detail |-> <<112, 97, 116, 104>>]
    ELSE IF raw_req.version = None THEN [tag |-> "Err", kind |-> "MissingField", detail |-> <<118, 101, 114, 115, 105, 111, 110>>]
    ELSE LET raw_path == Unwrap(raw_req.path)
             pos == FindQuery(raw_path)
             body_offset == raw_req.offset
         IN [tag |-> "Ok",
             request |->
                [method |-> Unwrap(raw_req.method),
                 path |-> IF pos = 0 THEN raw_path ELSE SubSeq(raw_path, 1, pos - 1),
                 query |-> IF pos = 0 THEN None
                           ELSE Some(SubSeq(raw_path, pos + 1, Len(raw_path))),
                 version |-> Unwrap(raw_req.version),
                 headers |-> raw_req.headers,
                 params |-> IF pos = 0 THEN {}
                            ELSE parse_query_string(SubSeq(raw_path, pos + 1, Len(raw_path))),
                 body |-> SubSeq(buf, body_offset + 1, Len(buf))],
             body_offset |-> body_offset]

\* Request::parse: the Request and the offset of the body, or a RequestError.
Request_parse(buf) == Request_build(buf, httparse_parse(buf))

\* Request::query_string and Request::query_param.
query_string(request) == request.query

query_param(request, key) == HashMap_get(request.params, key)

\* is_keep_alive comparing the Connection value byte for byte.
is_keep_alive_exact(request) ==
    LET conn == Headers_get(request.headers, STR_connection) IN
    IF IsSome(conn) THEN Unwrap(conn) = STR_keep_alive
    ELSE request.version = 1

\* Request::is_keep_alive.
is_keep_alive(request) ==
    LET conn == Headers_get(request.headers, STR_connection) IN
    IF IsSome(conn) THEN eq_ignore_ascii_case(Unwrap(conn), STR_keep_alive)
    ELSE request.version = 1

RECURSIVE ParseDigits(_, _, _)
\* The value of the decimal digits s[i..], on top of acc; None on a byte that is
\* no digit and on a value above USIZE_MAX.
ParseDigits(s, i, acc) ==
    IF i > Len(s) THEN Some(acc)
    ELSE IF s[i] < 48 \/ s[i] > 57 THEN None
    ELSE IF acc * 10 + (s[i] - 48) > USIZE_MAX THEN None
    ELSE ParseDigits(s, i + 1, acc * 10 + (s[i] - 48))

\* str::parse::<usize>: decimal digits after an optional '+'.
ParseUsize(s) ==
    IF Len(s) = 0 THEN None
    ELSE IF s[1] = 43 THEN (IF Len(s) = 1 THEN None ELSE ParseDigits(s, 2, 0))
    ELSE ParseDigits(s, 1, 0)

\* Request::content_length.
content_length(request) ==
    LET v == Headers_get(request.headers, STR_content_length) IN
    IF v = None THEN None ELSE ParseUsize(Unwrap(v))

STR_http_parse_error == <<72, 84, 84, 80, 32, 112, 97, 114, 115, 101, 32, 101, 114, 114, 111, 114, 58, 32>>  \* "HTTP parse error: "
STR_missing_field == <<109, 105, 115, 115, 105, 110, 103, 32, 114, 101, 113, 117, 105, 114, 101, 100, 32, 102, 105, 101, 108, 100, 58, 32>>  \* "missing required field: "
STR_incomplete == <<114, 101, 113, 117, 101, 115, 116, 32, 105, 115, 32, 105, 110, 99, 111, 109, 112, 108, 101, 116, 101>>  \* "request is incomplete"

\* The text of an httparse::Error (its Display).
httparse_display(e) ==
    CASE e = "Token" -> <<105, 110, 118, 97, 108, 105, 100, 32, 116, 111, 107, 101, 110>>  \* "invalid token"
      [] e = "Version" -> <<105, 110, 118, 97, 108, 105, 100, 32, 72, 84, 84, 80, 32, 118, 101, 114, 115, 105, 111, 110>>  \* "invalid HTTP version"
      [] e = "NewLine" -> <<105, 110, 118, 97, 108, 105, 100, 32, 110, 101, 119, 32, 108, 105, 110, 101>>  \* "invalid new line"
      [] e = "HeaderName" -> <<105, 110, 118, 97, 108, 105, 100, 32, 104, 101, 97, 100, 101, 114, 32, 110, 97, 109, 101>>  \* "invalid header name"
      [] e = "HeaderValue" -> <<105, 110, 118, 97, 108, 105, 100, 32, 104, 101, 97, 100, 101, 114, 32, 118, 97, 108, 117, 101>>  \* "invalid header value"
      [] e = "TooManyHeaders" -> <<116, 111, 111, 32, 109, 97, 110, 121, 32, 104, 101, 97, 100, 101, 114, 115>>  \* "too many headers"
      [] OTHER -> <<>>

\* The text of a RequestError (its #[error] format).
RequestError_display(e) ==
    CASE e.kind = "Incomplete" -> STR_incomplete
      [] e.kind = "Parse" -> STR_http_parse_error \o httparse_display(e.detail)
      [] e.kind = "MissingField" -> STR_missing_field \o e.detail
      [] OTHER -> <<>>

(***************************************************************************)
(* Response (src/http/response.rs).                                        *)
(***************************************************************************)
canonical_reason(status) ==
    CASE status = 200 -> "OK"
      [] status = 204 -> "No Content"
      [] status = 400 -> "Bad Request"
      [] status = 404 -> "Not Found"
      [] status = 413 -> "Payload Too Large"
      [] status = 500 -> "Internal Server Error"
      [] OTHER -> "?"

Response_new(status) ==
    [status |-> status, headers |-> Headers_new, body |-> <<>>, keep_alive |-> TRUE]

Response_header(r, name, value) == [r EXCEPT !.headers = Headers_insert(r.headers, name, value)]

\* Response::add_header, on a Response owned by the caller.
Response_add_header(r, name, value) == [r EXCEPT !.headers = Headers_insert(r.headers, name, value)]

Response_body(r, body) == [r EXCEPT !.body = body]

Response_keep_alive(r, keep_alive) == [r EXCEPT !.keep_alive = keep_alive]

RECURSIVE ToDigits(_)
\* The decimal digits of n (format!("{n}")).
ToDigits(n) == IF n < 10 THEN <<48 + n>> ELSE Append(ToDigits(n \div 10), 48 + (n % 10))

\* into_bytes taking the Content-Length from the number of header entries.
into_bytes_HeaderCount(r) ==
    LET h1 == IF Len(r.body) # 0 /\ ~Headers_contains(r.headers, STR_content_type)
              THEN Headers_insert(r.headers, STR_Content_Type, STR_text_plain)
              ELSE r.headers
        connection == IF r.keep_alive THEN STR_keep_alive ELSE STR_close
        h2 == Headers_insert(h1, STR_Connection, connection)
    IN [status_line |-> <<r.status, canonical_reason(r.status)>>,
        lines |-> Append(h2, <<STR_Content_Length, ToDigits(Headers_len(h2))>>),
        body |-> r.body]

\* Response::into_bytes. The message is kept line by line: the status line, the
\* header lines in the order written (each "name: value\r\n"), and the body after
\* the empty line.
into_bytes(r) ==
    LET body_len == Len(r.body)
        h1 == IF Len(r.body) # 0 /\ ~Headers_contains(r.headers, STR_content_type)
              THEN Headers_insert(r.headers, STR_Content_Type, STR_text_plain)
              ELSE r.headers
        connection == IF r.keep_alive THEN STR_keep_alive ELSE STR_close
        h2 == Headers_insert(h1, STR_Connection, connection)
    IN [status_line |-> <<r.status, canonical_reason(r.status)>>,
        lines |-> Append(h2, <<STR_Content_Length, ToDigits(body_len)>>),
        body |-> r.body]

STR_HTTP11_sp == <<72, 84, 84, 80, 47, 49, 46, 49, 32>>  \* "HTTP/1.1 "

\* StatusCode::canonical_reason, as the bytes format! writes.
reason_phrase(status) ==
    CASE status = 200 -> <<79, 75>>
      [] status = 204 -> <<78, 111, 32, 67, 111, 110, 116, 101, 110, 116>>
      [] status = 400 -> <<66, 97, 100, 32, 82, 101, 113, 117, 101, 115, 116>>
      [] status = 404 -> <<78, 111, 116, 32, 70, 111, 117, 110, 100>>
      [] status = 413 -> <<80, 97, 121, 108, 111, 97, 100, 32, 84, 111, 111, 32, 76, 97, 114, 103, 101>>
      [] status = 500 -> <<73, 110, 116, 101, 114, 110, 97, 108, 32, 83, 101, 114, 118, 101, 114, 32, 69, 114, 114, 111, 114>>
      [] OTHER -> <<63>>

RECURSIVE put_headers(_, _)
\* The header lines from the i-th on as the loop of into_bytes puts them into
\* buf: "{name}: {value}\r\n" each.
put_headers(lines, i) ==
    IF i > Len(lines) THEN <<>>
    ELSE lines[i][1] \o STR_colon_sp \o lines[i][2] \o CRLF \o put_headers(lines, i + 1)

\* The buffer into_bytes returns for the message m: the status line, the header
\* lines, the empty line and the body.
put_bytes(m) ==
    STR_HTTP11_sp \o ToDigits(m.status_line[1]) \o <<32>> \o reason_phrase(m.status_line[1]) \o CRLF
        \o put_headers(m.lines, 1) \o CRLF \o m.body

(***************************************************************************)
(* What a peer sends.                                                      *)
(***************************************************************************)
WIRE_GET11 == <<71, 69, 84, 32, 47, 32, 72, 84, 84, 80, 47, 49, 46, 49, 13, 10>>  \* "GET / HTTP/1.1\r\n"
WIRE_GET10 == <<71, 69, 84, 32, 47, 32, 72, 84, 84, 80, 47, 49, 46, 48, 13, 10>>  \* "GET / HTTP/1.0\r\n"
WIRE_POST11 == <<80, 79, 83, 84, 32, 47, 32, 72, 84, 84, 80, 47, 49, 46, 49, 13, 10>>  \* "POST / HTTP/1.1\r\n"
WIRE_GET20 == <<71, 69, 84, 32, 47, 32, 72, 84, 84, 80, 47, 50, 46, 48, 13, 10>>  \* "GET / HTTP/2.0\r\n"
WIRE_Conn_close == <<67, 111, 110, 110, 101, 99, 116, 105, 111, 110, 58, 32, 99, 108, 111, 115, 101, 13, 10>>  \* "Connection: close\r\n"
WIRE_conn_CLOSE == <<99, 111, 110, 110, 101, 99, 116, 105, 111, 110, 58, 32, 67, 76, 79, 83, 69, 13, 10>>  \* "connection: CLOSE\r\n"
WIRE_Conn_keep_alive == <<67, 111, 110, 110, 101, 99, 116, 105, 111, 110, 58, 32, 107, 101, 101, 112, 45, 97, 108, 105, 118, 101, 13, 10>>  \* "Connection: keep-alive\r\n"
WIRE_CONN_Keep_Alive == <<67, 79, 78, 78, 69, 67, 84, 73, 79, 78, 58, 32, 75, 101, 101, 112, 45, 65, 108, 105, 118, 101, 13, 10>>  \* "CONNECTION: Keep-Alive\r\n"
WIRE_Conn_upgrade == <<67, 111, 110, 110, 101, 99, 116, 105, 111, 110, 58, 32, 117, 112, 103, 114, 97, 100, 101, 13, 10>>  \* "Connection: upgrade\r\n"
WIRE_CL_prefix == <<67, 111, 110, 116, 101, 110, 116, 45, 76, 101, 110, 103, 116, 104, 58, 32>>  \* "Content-Length: "
WIRE_CL_bad == <<67, 111, 110, 116, 101, 110, 116, 45, 76, 101, 110, 103, 116, 104, 58, 32, 120, 13, 10>>  \* "Content-Length: x\r\n"
WIRE_pad_prefix == <<88, 58, 32>>  \* "X: "
WIRE_hi == <<104, 105>>  \* "hi"

\* "Content-Length: <n>\r\n"
WIRE_CL(n) == WIRE_CL_prefix \o ToDigits(n) \o CRLF

\* n bytes 'a'.
Pad(n) == [i \in 1..n |-> 97]

\* A request without a body.
Req0(line, hdrs) == line \o hdrs \o CRLF

(***************************************************************************)
(* The connection engine (src/server/mod.rs).                              *)
(***************************************************************************)
\* 8 * 1024 * 1024 in the source; the model scales the MiB.
MAX_REQUEST_SIZE == 8 * ScaledMiB

\* A request of exactly n bytes, padded by one header.
PaddedRequest(n) ==
    Req0(WIRE_GET11, WIRE_pad_prefix \o Pad(n - Len(WIRE_GET11) - Len(WIRE_pad_prefix) - 4) \o CRLF)

\* The Content-Length that makes body_offset + content_length = USIZE_MAX + 1
\* for a POST whose only header is that Content-Length (of three digits).
WrapToZero == USIZE_MAX + 1 - (Len(WIRE_POST11) + Len(WIRE_CL_prefix) + 3 + 4)

\* The byte streams a peer may send on one connection.
Scripts ==
    { Req0(WIRE_GET11, <<>>) \o Req0(WIRE_GET11, <<>>),
      Req0(WIRE_GET10, <<>>) \o Req0(WIRE_GET11, <<>>),
      Req0(WIRE_GET11, WIRE_Conn_close) \o Req0(WIRE_GET11, <<>>),
      Req0(WIRE_GET10, WIRE_CONN_Keep_Alive) \o Req0(WIRE_GET10, WIRE_conn_CLOSE),
      Req0(WIRE_GET11, WIRE_Conn_upgrade) \o Req0(WIRE_GET11, <<>>),
      Req0(WIRE_GET10, WIRE_Conn_upgrade),
      Req0(WIRE_POST11, WIRE_CL(2)) \o WIRE_hi \o Req0(WIRE_GET11, WIRE_Conn_keep_alive),
      Req0(WIRE_POST11, WIRE_CL(USIZE_MAX)) \o WIRE_hi,
      Req0(WIRE_POST11, WIRE_CL(WrapToZero)) \o WIRE_hi,
      Req0(WIRE_POST11, WIRE_CL_bad) \o WIRE_hi,
      Req0(WIRE_GET20, <<>>),
      Req0(WIRE_GET11, <<>>) \o <<1>>,
      PaddedRequest(MAX_REQUEST_SIZE),
      PaddedRequest(MAX_REQUEST_SIZE + 2),
      Req0(WIRE_GET11, <<>>) \o PaddedRequest(MAX_REQUEST_SIZE + 2) }

STR_no_response == <<78, 111, 32, 114, 101, 115, 112, 111, 110, 115, 101, 32, 103, 101, 110, 101, 114, 97, 116, 101, 100, 32, 98, 121, 32, 109, 105, 100, 100, 108, 101, 119, 97, 114, 101, 32, 112, 105, 112, 101, 108, 105, 110, 101>>  \* "No response generated by middleware pipeline"

\* The fallback of an exhausted cursor.
FallbackResponse == Response_body(Response_new(500), STR_no_response)

\* What Router::route returns when no route matches.
NotFoundResponse == Response_new(404)

\* What a handler may answer: Response::new(status), with or without a body,
\* keep_alive left at its default or set to false; and what a handler made of a
\* router or of a middleware pipeline answers when no route matches or the
\* chain is exhausted.
HandlerResponses ==
    { Response_body(Response_new(200), WIRE_hi),
      Response_body(Response_new(404), <<78, 111, 116, 32, 70, 111, 117, 110, 100>>),
      Response_new(500),
      Response_keep_alive(Response_new(200), FALSE),
      NotFoundResponse,
      FallbackResponse }

VARIABLES
    overflow_checks,  \* the build: TRUE when integer overflow panics (debug), FALSE when it wraps
    script,           \* script[c]: the bytes the peer of connection c sends, in order
    rcvd,             \* rcvd[c]: how many of them the engine has read
    buf,              \* buf[c]: the connection buffer
    pc,               \* pc[c]: where the task of connection c is suspended, or how it ended
    req,              \* req[c]: the Request last passed to the handler
    loc,              \* loc[c]: total_needed and keep_alive of the request in dispatch
    pending,          \* pending[c]: the serialized response being written
    out,              \* out[c]: the responses written to the socket, in order
    trace,            \* trace[c]: handler invocations, returns, writes and flushes, in order
    last,             \* last[c]: what the latest step of the task did
    call,             \* the latest call of a function checked on its own: its input and result
    listener          \* the accept loop of Server::run: whether it still runs, how many accepts failed

vars == <<overflow_checks, script, rcvd, buf, pc, req, loc, pending, out, trace, last, call, listener>>

NoCall == [f |-> "none"]

\* The accept loop of a listening server before any accept has failed.
Listening == [errors |-> 0, running |-> TRUE]

\* The connections of the model.
Conns == {1}

NoLoc == [total_needed |-> 0, keep_alive |-> FALSE]

InitConns(C, S) ==
    /\ overflow_checks \in BOOLEAN
    /\ script \in [C -> S]
    /\ rcvd = [c \in C |-> 0]
    /\ buf = [c \in C |-> <<>>]
    /\ pc = [c \in C |-> "read"]
    /\ req = [c \in C |-> None]
    /\ loc = [c \in C |-> NoLoc]
    /\ pending = [c \in C |-> None]
    /\ out = [c \in C |-> <<>>]
    /\ trace = [c \in C |-> <<>>]
    /\ last = [c \in C |-> [op |-> "spawn", result |-> NONE, parsed |-> FALSE]]
    /\ call = NoCall
    /\ listener = Listening

Init == InitConns(Conns, Scripts)

\* The 413 response of the size guard.
TooLargeResponse ==
    Response_keep_alive(Response_body(Response_new(413), STR_too_large), FALSE)

\* The 400 response without keep_alive(false).
BadRequestResponse_KeepAlive(e) ==
    Response_body(Response_new(400), STR_bad_request \o RequestError_display(e))

\* The 400 response to a RequestError e.
BadRequestResponse(e) ==
    Response_keep_alive(
        Response_body(Response_new(400), STR_bad_request \o RequestError_display(e)), FALSE)

\* The loop body from `total_needed` on, for the parsed request p and its
\* content_length() cl. The sum is a usize: it panics on overflow in a build with
\* overflow checks and wraps in one without.
AwaitBody(b, p, cl) ==
    LET sum == p.body_offset + (IF cl = None THEN 0 ELSE Unwrap(cl))
        total_needed == sum % (USIZE_MAX + 1)
    IN IF sum > USIZE_MAX /\ overflow_checks
       THEN [kind |-> "panic", parsed |-> TRUE]
       ELSE IF Len(b) < total_needed
       THEN [kind |-> "await_body", parsed |-> TRUE]
       ELSE [kind |-> "dispatch", parsed |-> TRUE, request |-> p.request,
             total_needed |-> total_needed,
             keep_alive |-> is_keep_alive(p.request)]

\* The match with Incomplete falling into the error arm.
Parsed_IncompleteIsError(b, p) ==
    IF p.tag = "Err"
    THEN [kind |-> "bad_request", parsed |-> TRUE, err |-> p]
    ELSE AwaitBody(b, p, content_length(p.request))

\* The match with a 400 for a Content-Length that content_length() cannot parse.
Parsed_RejectBadLength(b, p) ==
    IF p.tag = "Err" /\ p.kind = "Incomplete"
    THEN [kind |-> "incomplete", parsed |-> TRUE]
    ELSE IF p.tag = "Err"
    THEN [kind |-> "bad_request", parsed |-> TRUE, err |-> p]
    ELSE IF Headers_contains(p.request.headers, STR_content_length)
            /\ content_length(p.request) = None
    THEN [kind |-> "bad_request", parsed |-> TRUE,
          err |-> [tag |-> "Err", kind |-> "MissingField", detail |-> STR_content_length]]
    ELSE AwaitBody(b, p, content_length(p.request))

\* The match on the result p of Request::parse(&buf).
Parsed(b, p) ==
    IF p.tag = "Err" /\ p.kind = "Incomplete"
    THEN [kind |-> "incomplete", parsed |-> TRUE]
    ELSE IF p.tag = "Err"
    THEN [kind |-> "bad_request", parsed |-> TRUE, err |-> p]
    ELSE AwaitBody(b, p, content_length(p.request))

\* The loop body with the size guard written `>=`.
Process_InclusiveCap(b) ==
    IF Len(b) >= MAX_REQUEST_SIZE
    THEN [kind |-> "too_large", parsed |-> FALSE]
    ELSE Parsed(b, Request_parse(b))

\* The loop body with the size guard behind the codec, on Incomplete only.
Process_ParseFirst(b) ==
    LET o == Parsed(b, Request_parse(b)) IN
    IF o.kind = "incomplete" /\ Len(b) > MAX_REQUEST_SIZE
    THEN [kind |-> "too_large", parsed |-> FALSE]
    ELSE o

\* One pass of the loop body after a read of at least one byte left b in the
\* buffer: from the size guard to the next await (or the next read).
Process(b) ==
    IF Len(b) > MAX_REQUEST_SIZE
    THEN [kind |-> "too_large", parsed |-> FALSE]
    ELSE Parsed(b, Request_parse(b))

\* The sizes a read of connection c may return.
ReadSizes(c) ==
    LET left == Len(script[c]) - rcvd[c] IN
    {n \in 1..left : n <= MaxRead \/ n = left}

\* The task of connection c after a read of n bytes made the buffer b and the
\* loop body came to o.
Resume(c, n, b, o) ==
    /\ rcvd' = [rcvd EXCEPT ![c] = @ + n]
    /\ buf' = [buf EXCEPT ![c] = b]
    /\ last' = [last EXCEPT ![c] = [op |-> "read", result |-> o.kind, parsed |-> o.parsed]]
    /\ pc' = [pc EXCEPT ![c] =
          CASE o.kind = "too_large" -> "write_final"
            [] o.kind = "bad_request" -> "write_final"
            [] o.kind = "dispatch" -> "handler"
            [] o.kind = "panic" -> "panicked"
            [] OTHER -> "read"]
    /\ pending' = [pending EXCEPT ![c] =
          CASE o.kind = "too_large" -> Some(into_bytes(TooLargeResponse))
            [] o.kind = "bad_request" -> Some(into_bytes(BadRequestResponse(o.err)))
            [] OTHER -> @]
    /\ req' = [req EXCEPT ![c] = IF o.kind = "dispatch" THEN Some(o.request) ELSE @]
    /\ loc' = [loc EXCEPT ![c] =
          IF o.kind = "dispatch"
          THEN [total_needed |-> o.total_needed, keep_alive |-> o.keep_alive]
          ELSE @]
    /\ trace' = [trace EXCEPT ![c] = IF o.kind = "dispatch" THEN Append(@, "invoke") ELSE @]

\* The buffer after n more bytes of the peer of connection c.
Filled(c, n) == buf[c] \o SubSeq(script[c], rcvd[c] + 1, rcvd[c] + n)

\* stream.read_buf returns n > 0 bytes; the task runs on to its next await.
ReadData(c) ==
    /\ pc[c] = "read"
    /\ \E n \in ReadSizes(c) : Resume(c, n, Filled(c, n), Process(Filled(c, n)))
    /\ UNCHANGED <<overflow_checks, script, out, call, listener>>

\* A zero-byte read with `continue` in place of `break`.
ReadZero_Continue(c) ==
    /\ pc[c] = "read"
    /\ last[c].result # "eof"
    /\ last' = [last EXCEPT ![c] = [op |-> "read", result |-> "eof", parsed |-> FALSE]]
    /\ UNCHANGED <<overflow_checks, script, rcvd, buf, pc, req, loc, pending, out, trace, call, listener>>

\* stream.read_buf returns 0: the peer closed; the loop breaks.
ReadZero(c) ==
    /\ pc[c] = "read"
    /\ pc' = [pc EXCEPT ![c] = "closed"]
    /\ last' = [last EXCEPT ![c] = [op |-> "read", result |-> "eof", parsed |-> FALSE]]
    /\ UNCHANGED <<overflow_checks, script, rcvd, buf, req, loc, pending, out, trace, call, listener>>

\* An await of the socket fails: `?` returns the error from handle_connection.
IoError(c) ==
    /\ pc[c] \in {"read", "write", "flush", "write_final"}
    /\ pc' = [pc EXCEPT ![c] = "failed"]
    /\ last' = [last EXCEPT ![c] = [op |-> "io_error", result |-> pc[c], parsed |-> FALSE]]
    /\ UNCHANGED <<overflow_checks, script, rcvd, buf, req, loc, pending, out, trace, call, listener>>

\* handler(request).await completes with a Response, which is serialized.
HandlerReturn(c) ==
    /\ pc[c] = "handler"
    /\ \E response \in HandlerResponses :
         pending' = [pending EXCEPT ![c] = Some(into_bytes(response))]
    /\ pc' = [pc EXCEPT ![c] = "write"]
    /\ trace' = [trace EXCEPT ![c] = Append(@, "return")]
    /\ last' = [last EXCEPT ![c] = [op |-> "handler", result |-> NONE, parsed |-> FALSE]]
    /\ UNCHANGED <<overflow_checks, script, rcvd, buf, req, loc, out, call, listener>>

\* write_all with the loop going on to the next read at once: no flush, no split_to.
WriteAll_NoFlush(c) ==
    /\ pc[c] = "write"
    /\ out' = [out EXCEPT ![c] = Append(@, Unwrap(pending[c]))]
    /\ pc' = [pc EXCEPT ![c] = "read"]
    /\ trace' = [trace EXCEPT ![c] = Append(@, "write")]
    /\ last' = [last EXCEPT ![c] = [op |-> "write", result |-> NONE, parsed |-> FALSE]]
    /\ UNCHANGED <<overflow_checks, script, rcvd, buf, req, loc, pending, call, listener>>

\* stream.write_all(response) completes.
WriteAll(c) ==
    /\ pc[c] = "write"
    /\ out' = [out EXCEPT ![c] = Append(@, Unwrap(pending[c]))]
    /\ pc' = [pc EXCEPT ![c] = "flush"]
    /\ trace' = [trace EXCEPT ![c] = Append(@, "write")]
    /\ last' = [last EXCEPT ![c] = [op |-> "write", result |-> NONE, parsed |-> FALSE]]
    /\ UNCHANGED <<overflow_checks, script, rcvd, buf, req, loc, pending, call, listener>>

\* buf.split_to(at): the bytes after the first `at`.
split_to(b, at) == SubSeq(b, at + 1, Len(b))

\* The loop breaking after a response whose status reports an error.
Flush_CloseOnErrorStatus(c) ==
    /\ pc[c] = "flush"
    /\ buf' = [buf EXCEPT ![c] = split_to(@, loc[c].total_needed)]
    /\ pc' = [pc EXCEPT ![c] =
          IF loc[c].keep_alive /\ Unwrap(pending[c]).status_line[1] < 400 THEN "read" ELSE "closed"]
    /\ trace' = [trace EXCEPT ![c] = Append(@, "flush")]
    /\ last' = [last EXCEPT ![c] = [op |-> "flush", result |-> NONE, parsed |-> FALSE]]
    /\ UNCHANGED <<overflow_checks, script, rcvd, req, loc, pending, out, call, listener>>

\* stream.flush() completes; the consumed bytes leave the buffer and the loop
\* goes on or breaks.
Flush(c) ==
    /\ pc[c] = "flush"
    /\ buf' = [buf EXCEPT ![c] = split_to(@, loc[c].total_needed)]
    /\ pc' = [pc EXCEPT ![c] = IF loc[c].keep_alive THEN "read" ELSE "closed"]
    /\ trace' = [trace EXCEPT ![c] = Append(@, "flush")]
    /\ last' = [last EXCEPT ![c] = [op |-> "flush", result |-> NONE, parsed |-> FALSE]]
    /\ UNCHANGED <<overflow_checks, script, rcvd, req, loc, pending, out, call, listener>>

\* The write of the 413 or 400 response with `continue` in place of `break`.
WriteFinal_Continue(c) ==
    /\ pc[c] = "write_final"
    /\ out' = [out EXCEPT ![c] = Append(@, Unwrap(pending[c]))]
    /\ pc' = [pc EXCEPT ![c] = "read"]
    /\ trace' = [trace EXCEPT ![c] = Append(@, "write_final")]
    /\ last' = [last EXCEPT ![c] = [op |-> "write_final", result |-> NONE, parsed |-> FALSE]]
    /\ UNCHANGED <<overflow_checks, script, rcvd, buf, req, loc, pending, call, listener>>

\* stream.write_all of the 413 or 400 response completes; the loop breaks.
WriteFinal(c) ==
    /\ pc[c] = "write_final"
    /\ out' = [out EXCEPT ![c] = Append(@, Unwrap(pending[c]))]
    /\ pc' = [pc EXCEPT ![c] = "closed"]
    /\ trace' = [trace EXCEPT ![c] = Append(@, "write_final")]
    /\ last' = [last EXCEPT ![c] = [op |-> "write_final", result |-> NONE, parsed |-> FALSE]]
    /\ UNCHANGED <<overflow_checks, script, rcvd, buf, req, loc, pending, call, listener>>

Next ==
    \E c \in Conns :
        \/ ReadData(c)
        \/ ReadZero(c)
        \/ IoError(c)
        \/ HandlerReturn(c)
        \/ WriteAll(c)
        \/ Flush(c)
        \/ WriteFinal(c)

Spec == Init /\ [][Next]_vars

(***************************************************************************)
(* Request::is_keep_alive on its own: every version, with no Connection    *)
(* header or one whose value is `keep-alive` or `close` in every ASCII     *)
(* casing, or another value.                                               *)
(***************************************************************************)
\* u8::to_ascii_uppercase.
to_ascii_uppercase(b) == IF b >= 97 /\ b <= 122 THEN b - 32 ELSE b

RECURSIVE Casings(_)
\* Every ASCII casing of the string s.
Casings(s) ==
    IF s = <<>> THEN {<<>>}
    ELSE {<<b>> \o t : b \in {to_ascii_lowercase(s[1]), to_ascii_uppercase(s[1])},
                       t \in Casings(Tail(s))}

STR_host == <<72, 111, 115, 116>>  \* "Host"
STR_localhost == <<108, 111, 99, 97, 108, 104, 111, 115, 116>>  \* "localhost"
STR_upgrade == <<117, 112, 103, 114, 97, 100, 101>>  \* "upgrade"

\* The spellings of the header name tried.
ConnectionNames == {STR_connection, STR_Connection, [i \in 1..Len(STR_connection) |-> to_ascii_uppercase(STR_connection[i])]}

\* The Connection values tried, by kind.
ConnectionValues(kind) ==
    CASE kind = "keep-alive" -> Casings(STR_keep_alive)
      [] kind = "close" -> Casings(STR_close)
      [] OTHER -> {STR_upgrade, <<>>, STR_keep_alive \o <<44>> \o STR_upgrade}

\* The state outside the engine: no connection does anything.
EngineIdle ==
    /\ overflow_checks = FALSE
    /\ script = [c \in Conns |-> <<>>]
    /\ rcvd = [c \in Conns |-> 0]
    /\ buf = [c \in Conns |-> <<>>]
    /\ pc = [c \in Conns |-> "closed"]
    /\ req = [c \in Conns |-> None]
    /\ loc = [c \in Conns |-> NoLoc]
    /\ pending = [c \in Conns |-> None]
    /\ out = [c \in Conns |-> <<>>]
    /\ trace = [c \in Conns |-> <<>>]
    /\ last = [c \in Conns |-> [op |-> "spawn", result |-> NONE, parsed |-> FALSE]]
    /\ listener = Listening

engineVars == <<overflow_checks, script, rcvd, buf, pc, req, loc, pending, out, trace, last, listener>>

\* A parsed request of the given version and headers, as Request::parse builds it.
RequestOf(version, headers) ==
    [method |-> <<71, 69, 84>>, path |-> <<47>>, query |-> None, version |-> version,
     headers |-> headers, body |-> <<>>]

KeepAliveInit == EngineIdle /\ call = NoCall

\* is_keep_alive on a request without a Connection header.
KeepAliveDefault ==
    /\ call.f = "none"
    /\ \E version \in {0, 1}, headers \in {Headers_new, Headers_insert(Headers_new, STR_host, STR_localhost)} :
         call' = [f |-> "is_keep_alive", kind |-> "absent", version |-> version,
                  headers |-> headers,
                  result |-> is_keep_alive(RequestOf(version, headers))]
    /\ UNCHANGED engineVars

\* is_keep_alive on a request with a Connection header, alone or after a Host header.
KeepAliveExplicit ==
    /\ call.f = "none"
    /\ \E version \in {0, 1}, kind \in {"keep-alive", "close", "other"}, name \in ConnectionNames,
          first \in {Headers_new, Headers_insert(Headers_new, STR_host, STR_localhost)} :
         \E value \in ConnectionValues(kind) :
            call' = [f |-> "is_keep_alive", kind |-> kind, version |-> version,
                     headers |-> Headers_insert(first, name, value),
                     result |-> is_keep_alive(RequestOf(version, Headers_insert(first, name, value)))]
    /\ UNCHANGED engineVars

KeepAliveNext == KeepAliveDefault \/ KeepAliveExplicit

KeepAliveSpec == KeepAliveInit /\ [][KeepAliveNext]_vars

(***************************************************************************)
(* Server::run (src/server/mod.rs): the accept loop and the tasks it       *)
(* spawns, one per accepted connection.                                    *)
(***************************************************************************)
\* How many failed accepts the model follows.
MaxAcceptErrors == 1

\* The connections that peers open, in the order the listener accepts them.
ServerConns == {1, 2}

\* The byte streams their peers may send.
ServerScripts ==
    { Req0(WIRE_GET11, <<>>),
      Req0(WIRE_GET20, <<>>) }

\* No connection is accepted yet and no accept has failed.
ServerInit ==
    /\ overflow_checks \in BOOLEAN
    /\ script \in [ServerConns -> ServerScripts]
    /\ rcvd = [c \in ServerConns |-> 0]
    /\ buf = [c \in ServerConns |-> <<>>]
    /\ pc = [c \in ServerConns |-> "connecting"]
    /\ req = [c \in ServerConns |-> None]
    /\ loc = [c \in ServerConns |-> NoLoc]
    /\ pending = [c \in ServerConns |-> None]
    /\ out = [c \in ServerConns |-> <<>>]
    /\ trace = [c \in ServerConns |-> <<>>]
    /\ last = [c \in ServerConns |-> [op |-> "none", result |-> NONE, parsed |-> FALSE]]
    /\ call = NoCall
    /\ listener = Listening

\* A spawn with one buffer for all tasks, emptied for each new task.
Accept_SharedBuffer(c) ==
    /\ listener.running
    /\ pc[c] = "connecting"
    /\ \A d \in ServerConns : d < c => pc[d] # "connecting"
    /\ pc' = [pc EXCEPT ![c] = "read"]
    /\ buf' = [d \in ServerConns |-> <<>>]
    /\ last' = [last EXCEPT ![c] = [op |-> "spawn", result |-> NONE, parsed |-> FALSE]]
    /\ UNCHANGED <<overflow_checks, script, rcvd, req, loc, pending, out, trace, call, listener>>

\* listener.accept() returns the next connection; tokio::spawn starts its task
\* with an empty buffer, and the loop goes back to accept.
Accept(c) ==
    /\ listener.running
    /\ pc[c] = "connecting"
    /\ \A d \in ServerConns : d < c => pc[d] # "connecting"
    /\ pc' = [pc EXCEPT ![c] = "read"]
    /\ buf' = [buf EXCEPT ![c] = <<>>]
    /\ last' = [last EXCEPT ![c] = [op |-> "spawn", result |-> NONE, parsed |-> FALSE]]
    /\ UNCHANGED <<overflow_checks, script, rcvd, req, loc, pending, out, trace, call, listener>>

\* A failed accept returned from run with `?` in place of `continue`.
AcceptError_Return ==
    /\ listener.running
    /\ listener.errors < MaxAcceptErrors
    /\ listener' = [errors |-> listener.errors + 1, running |-> FALSE]
    /\ UNCHANGED <<overflow_checks, script, rcvd, buf, pc, req, loc, pending, out, trace, last, call>>

\* listener.accept() fails: the error is logged and the loop continues.
AcceptError ==
    /\ listener.running
    /\ listener.errors < MaxAcceptErrors
    /\ listener' = [listener EXCEPT !.errors = @ + 1]
    /\ UNCHANGED <<overflow_checks, script, rcvd, buf, pc, req, loc, pending, out, trace, last, call>>

\* One step of the task of connection c.
TaskStep(c) ==
    \/ ReadData(c)
    \/ ReadZero(c)
    \/ IoError(c)
    \/ HandlerReturn(c)
    \/ WriteAll(c)
    \/ Flush(c)
    \/ WriteFinal(c)

ServerNext ==
    \/ AcceptError
    \/ \E c \in ServerConns :
        \/ Accept(c)
        \/ ReadData(c)
        \/ ReadZero(c)
        \/ IoError(c)
        \/ HandlerReturn(c)
        \/ WriteAll(c)
        \/ Flush(c)
        \/ WriteFinal(c)

ServerSpec == ServerInit /\ [][ServerNext]_vars

(***************************************************************************)
(* CorsMiddleware (src/security/middleware.rs).                            *)
(***************************************************************************)
STR_origin == <<111, 114, 105, 103, 105, 110>>  \* "origin"
STR_star == <<42>>  \* "*"
STR_ACA_Origin == <<65, 99, 99, 101, 115, 115, 45, 67, 111, 110, 116, 114, 111, 108, 45, 65, 108, 108, 111, 119, 45, 79, 114, 105, 103, 105, 110>>  \* "Access-Control-Allow-Origin"
STR_ACA_Methods == <<65, 99, 99, 101, 115, 115, 45, 67, 111, 110, 116, 114, 111, 108, 45, 65, 108, 108, 111, 119, 45, 77, 101, 116, 104, 111, 100, 115>>  \* "Access-Control-Allow-Methods"
STR_ACA_Headers == <<65, 99, 99, 101, 115, 115, 45, 67, 111, 110, 116, 114, 111, 108, 45, 65, 108, 108, 111, 119, 45, 72, 101, 97, 100, 101, 114, 115>>  \* "Access-Control-Allow-Headers"
STR_AC_Max_Age == <<65, 99, 99, 101, 115, 115, 45, 67, 111, 110, 116, 114, 111, 108, 45, 77, 97, 120, 45, 65, 103, 101>>  \* "Access-Control-Max-Age"
STR_3600 == <<51, 54, 48, 48>>  \* "3600"
STR_Vary == <<86, 97, 114, 121>>  \* "Vary"
STR_Origin == <<79, 114, 105, 103, 105, 110>>  \* "Origin"
STR_GET == <<71, 69, 84>>  \* "GET"
STR_POST == <<80, 79, 83, 84>>  \* "POST"
STR_PUT == <<80, 85, 84>>  \* "PUT"
STR_DELETE == <<68, 69, 76, 69, 84, 69>>  \* "DELETE"
STR_OPTIONS == <<79, 80, 84, 73, 79, 78, 83>>  \* "OPTIONS"
STR_PATCH == <<80, 65, 84, 67, 72>>  \* "PATCH"
STR_Authorization == <<65, 117, 116, 104, 111, 114, 105, 122, 97, 116, 105, 111, 110>>  \* "Authorization"
STR_comma_sp == <<44, 32>>  \* ", "
STR_origin_a == <<104, 116, 116, 112, 115, 58, 47, 47, 97, 46, 116, 101, 115, 116>>  \* "https://a.test"
STR_origin_b == <<104, 116, 116, 112, 115, 58, 47, 47, 98, 46, 116, 101, 115, 116>>  \* "https://b.test"
STR_X_Unit == <<88, 45, 85, 110, 105, 116>>  \* "X-Unit"
STR_decorated == <<100, 101, 99, 111, 114, 97, 116, 101, 100>>  \* "decorated"

RECURSIVE join(_, _)
\* [String]::join(sep).
join(list, sep) ==
    IF list = <<>> THEN <<>>
    ELSE IF Len(list) = 1 THEN list[1]
    ELSE list[1] \o sep \o join(Tail(list), sep)

CorsMiddleware_new ==
    [allowed_origins |-> <<STR_star>>,
     allowed_methods |-> <<STR_GET, STR_POST, STR_PUT, STR_DELETE>>,
     allowed_headers |-> <<STR_Content_Type, STR_Authorization>>]

allow_origin(cors, origin) == [cors EXCEPT !.allowed_origins = Append(@, origin)]

allow_method(cors, method) == [cors EXCEPT !.allowed_methods = Append(@, method)]

allow_header(cors, header) == [cors EXCEPT !.allowed_headers = Append(@, header)]

\* Vec::contains / iter().any(|o| o == x).
Contains(list, x) == \E i \in 1..Len(list) : list[i] = x

\* handle forwarding a preflight like any other accepted request.
Cors_plan_NoPreflight(cors, request) ==
    LET request_origin == Headers_get(request.headers, STR_origin)
        wildcard == Contains(cors.allowed_origins, STR_star)
    IN IF request_origin = None THEN [kind |-> "pass"]
       ELSE IF ~wildcard /\ ~Contains(cors.allowed_origins, Unwrap(request_origin))
       THEN [kind |-> "pass"]
       ELSE [kind |-> "actual",
             allow_origin |-> IF wildcard THEN STR_star ELSE Unwrap(request_origin),
             methods_str |-> join(cors.allowed_methods, STR_comma_sp),
             headers_str |-> join(cors.allowed_headers, STR_comma_sp)]

\* handle without the early return for a request that has no Origin header.
Cors_plan_NoOriginTest(cors, request) ==
    LET request_origin == Headers_get(request.headers, STR_origin)
        is_preflight == request.method = STR_OPTIONS
        wildcard == Contains(cors.allowed_origins, STR_star)
    IN IF ~wildcard /\ (request_origin = None \/ ~Contains(cors.allowed_origins, Unwrap(request_origin)))
       THEN [kind |-> "pass"]
       ELSE [kind |-> IF is_preflight THEN "preflight" ELSE "actual",
             allow_origin |-> IF wildcard THEN STR_star ELSE Unwrap(request_origin),
             methods_str |-> join(cors.allowed_methods, STR_comma_sp),
             headers_str |-> join(cors.allowed_headers, STR_comma_sp)]

\* CorsMiddleware::handle up to its first await or return: what it will do with
\* the request. "pass" forwards and returns the downstream response as it is,
\* "preflight" answers without forwarding, "actual" forwards and decorates.
Cors_plan(cors, request) ==
    LET request_origin == Headers_get(request.headers, STR_origin)
        is_preflight == request.method = STR_OPTIONS
        wildcard == Contains(cors.allowed_origins, STR_star)
    IN IF request_origin = None THEN [kind |-> "pass"]
       ELSE IF ~wildcard /\ ~Contains(cors.allowed_origins, Unwrap(request_origin))
       THEN [kind |-> "pass"]
       ELSE [kind |-> IF is_preflight THEN "preflight" ELSE "actual",
             allow_origin |-> IF wildcard THEN STR_star ELSE Unwrap(request_origin),
             methods_str |-> join(cors.allowed_methods, STR_comma_sp),
             headers_str |-> join(cors.allowed_headers, STR_comma_sp)]

\* The response of the preflight branch.
Cors_preflight(plan) ==
    LET resp == Response_header(Response_header(Response_header(Response_header(
                    Response_new(204),
                    STR_ACA_Origin, plan.allow_origin),
                    STR_ACA_Methods, plan.methods_str),
                    STR_ACA_Headers, plan.headers_str),
                    STR_AC_Max_Age, STR_3600)
    IN IF plan.allow_origin # STR_star THEN Response_header(resp, STR_Vary, STR_Origin) ELSE resp

\* The last branch with `Vary: Origin` added whatever the allowed origin.
Cors_decorate_AlwaysVary(plan, resp) ==
    Response_add_header(Response_add_header(Response_add_header(Response_add_header(resp,
        STR_ACA_Origin, plan.allow_origin),
        STR_ACA_Methods, plan.methods_str),
        STR_ACA_Headers, plan.headers_str),
        STR_Vary, STR_Origin)

\* The downstream response resp after the add_header calls of the last branch.
Cors_decorate(plan, resp) ==
    LET r3 == Response_add_header(Response_add_header(Response_add_header(resp,
                    STR_ACA_Origin, plan.allow_origin),
                    STR_ACA_Methods, plan.methods_str),
                    STR_ACA_Headers, plan.headers_str)
    IN IF plan.allow_origin # STR_star THEN Response_add_header(r3, STR_Vary, STR_Origin) ELSE r3

(***************************************************************************)
(* The middleware pipeline (src/middleware/mod.rs): one pass started by    *)
(* Next::new(chain).run(ctx). The pass is kept in `call`: the chain, the   *)
(* request of the Context, the index of the one live Next (it is moved     *)
(* into run and into the unit, never cloned), the units suspended in       *)
(* next.run(ctx).await, innermost last, and the positions invoked so far.  *)
(***************************************************************************)
\* The longest chain tried.
MaxChain == 3

\* The CorsMiddleware values tried, built as callers build them.
CorsConfigs ==
    { CorsMiddleware_new,
      allow_origin(CorsMiddleware_new, STR_origin_a),
      allow_header(allow_method(CorsMiddleware_new, STR_PATCH), STR_X_Unit) }

\* The units tried: LoggerMiddleware (forwards and returns the response as it
\* is), a unit that answers 200 without forwarding (a terminal handler), a unit
\* that forwards and adds a header to the response, and CorsMiddleware.
Units ==
    {[kind |-> k, cors |-> CorsMiddleware_new] : k \in {"logger", "respond", "decorate"}}
        \cup {[kind |-> "cors", cors |-> c] : c \in CorsConfigs}

Chains == UNION {[1..n -> Units] : n \in 0..MaxChain}

\* A request with the given method and headers.
RequestWith(method, headers) == [RequestOf(1, headers) EXCEPT !.method = method]

\* The requests sent through the pipeline.
PipelineRequests ==
    {RequestWith(m, h) :
        m \in {STR_GET, STR_OPTIONS},
        h \in {Headers_new,
               Headers_insert(Headers_new, STR_Origin, STR_origin_a),
               Headers_insert(Headers_insert(Headers_new, STR_host, STR_localhost), STR_origin, STR_origin_b)}}

\* What the unit u does with the request when invoked: "forward" or "respond".
Unit_plan(u, request) ==
    CASE u.kind = "respond" -> "respond"
      [] u.kind = "cors" ->
            IF Cors_plan(u.cors, request).kind = "preflight" THEN "respond" ELSE "forward"
      [] OTHER -> "forward"

\* The response the unit u returns without forwarding.
Unit_respond(u, request) ==
    IF u.kind = "cors" THEN Cors_preflight(Cors_plan(u.cors, request))
    ELSE Response_body(Response_new(200), WIRE_hi)

\* The response the unit u returns once next.run(ctx).await gave it resp.
Unit_return(u, request, resp) ==
    CASE u.kind = "decorate" -> Response_add_header(resp, STR_X_Unit, STR_decorated)
      [] u.kind = "cors" /\ Cors_plan(u.cors, request).kind = "actual" ->
            Cors_decorate(Cors_plan(u.cors, request), resp)
      [] OTHER -> resp

PipelineInit == EngineIdle /\ call = NoCall

\* Next::new(chain).run(ctx) is called.
Next_new ==
    /\ call.f = "none"
    /\ \E chain \in Chains, request \in PipelineRequests :
         call' = [f |-> "pipeline", chain |-> chain, request |-> request, mode |-> "run",
                  index |-> 0, stack |-> <<>>, invoked |-> <<>>, response |-> None]
    /\ UNCHANGED engineVars

\* Next::run without `self.index += 1`.
Next_run_NoAdvance ==
    /\ call.f = "pipeline" /\ call.mode = "run"
    /\ IF call.index < Len(call.chain)
       THEN call' = [call EXCEPT !.invoked = Append(@, call.index),
                                 !.stack = Append(@, call.index),
                                 !.mode = "unit"]
       ELSE call' = [call EXCEPT !.response = Some(FallbackResponse), !.mode = "return"]
    /\ UNCHANGED engineVars

\* Next::run without the test of the index against the length of the chain.
Next_run_Unchecked ==
    /\ call.f = "pipeline" /\ call.mode = "run"
    /\ call' = [call EXCEPT !.index = @ + 1,
                            !.invoked = Append(@, call.index),
                            !.stack = Append(@, call.index),
                            !.mode = "unit"]
    /\ UNCHANGED engineVars

\* Next::run: the unit at the index is invoked with the advanced cursor, or the
\* fallback is returned to the caller.
Next_run ==
    /\ call.f = "pipeline" /\ call.mode = "run"
    /\ IF call.index < Len(call.chain)
       THEN call' = [call EXCEPT !.index = @ + 1,
                                 !.invoked = Append(@, call.index),
                                 !.stack = Append(@, call.index),
                                 !.mode = "unit"]
       ELSE call' = [call EXCEPT !.response = Some(FallbackResponse), !.mode = "return"]
    /\ UNCHANGED engineVars

\* The unit just invoked runs to its next.run(ctx).await or to its return.
Unit_handle ==
    /\ call.f = "pipeline" /\ call.mode = "unit"
    /\ LET pos == call.stack[Len(call.stack)]
           u == call.chain[pos + 1]
       IN IF Unit_plan(u, call.request) = "forward"
          THEN call' = [call EXCEPT !.mode = "run"]
          ELSE call' = [call EXCEPT !.response = Some(Unit_respond(u, call.request)),
                                    !.stack = SubSeq(@, 1, Len(@) - 1),
                                    !.mode = "return"]
    /\ UNCHANGED engineVars

\* next.run(ctx).await completes in the innermost suspended unit, which returns.
Unit_resume ==
    /\ call.f = "pipeline" /\ call.mode = "return" /\ call.stack # <<>>
    /\ LET pos == call.stack[Len(call.stack)]
           u == call.chain[pos + 1]
       IN call' = [call EXCEPT !.response = Some(Unit_return(u, call.request, Unwrap(@))),
                               !.stack = SubSeq(@, 1, Len(@) - 1)]
    /\ UNCHANGED engineVars

\* The response reaches the caller of Next::new(chain).run(ctx).
Pipeline_done ==
    /\ call.f = "pipeline" /\ call.mode = "return" /\ call.stack = <<>>
    /\ call' = [call EXCEPT !.mode = "done"]
    /\ UNCHANGED engineVars

PipelineNext == Next_new \/ Next_run \/ Unit_handle \/ Unit_resume \/ Pipeline_done

PipelineSpec == PipelineInit /\ [][PipelineNext]_vars

(***************************************************************************)
(* The router (src/router/mod.rs).                                         *)
(***************************************************************************)
STR_slash == <<47>>  \* "/"
STR_slash_star == <<47, 42>>  \* "/*"
STR_wildcard == <<119, 105, 108, 100, 99, 97, 114, 100>>  \* "wildcard"
PATH_a == <<47, 97>>  \* "/a"
PATH_a_slash == <<47, 97, 47>>  \* "/a/"
PATH_b == <<47, 98>>  \* "/b"
PATH_a_id == <<47, 97, 47, 58, 105, 100>>  \* "/a/:id"
PATH_a_star == <<47, 97, 47, 42>>  \* "/a/*"
PATH_a_x == <<47, 97, 47, 120>>  \* "/a/x"
PATH_ab == <<47, 97, 98>>  \* "/ab"

\* str::ends_with and str::starts_with.
ends_with(s, suffix) ==
    Len(s) >= Len(suffix) /\ SubSeq(s, Len(s) - Len(suffix) + 1, Len(s)) = suffix

starts_with(s, prefix) ==
    Len(s) >= Len(prefix) /\ SubSeq(s, 1, Len(prefix)) = prefix

\* str::strip_suffix and str::strip_prefix: Some(rest) or None.
strip_suffix(s, suffix) ==
    IF ends_with(s, suffix) THEN Some(SubSeq(s, 1, Len(s) - Len(suffix))) ELSE None

strip_prefix(s, prefix) ==
    IF starts_with(s, prefix) THEN Some(SubSeq(s, Len(prefix) + 1, Len(s))) ELSE None

\* split('/').filter(|s| !s.is_empty()).
Segments(s) == SelectSeq(split(s, STR_slash[1]), LAMBDA x : x # <<>>)

\* A pattern or path taken as it is, trailing slash and all.
StripTrailingSlash_Keep(s) == s

\* The pattern or path without one trailing slash, the bare root excepted.
StripTrailingSlash(s) ==
    IF s # STR_slash /\ ends_with(s, STR_slash) THEN SubSeq(s, 1, Len(s) - 1) ELSE s

\* Segment::Static(s) or Segment::Parameter(name).
Segment_of(s) ==
    IF IsSome(strip_prefix(s, <<COLON>>))
    THEN [tag |-> "Parameter", s |-> Unwrap(strip_prefix(s, <<COLON>>))]
    ELSE [tag |-> "Static", s |-> s]

\* parse storing the prefix of a wildcard with its last slash ("/files/").
Pattern_parse_PrefixWithSlash(raw) ==
    LET pattern == StripTrailingSlash(raw) IN
    IF IsSome(strip_suffix(pattern, STR_slash_star))
    THEN [tag |-> "Wildcard", s |-> SubSeq(pattern, 1, Len(pattern) - 1), segments |-> <<>>]
    ELSE IF \E i \in 1..Len(pattern) : pattern[i] = COLON
    THEN [tag |-> "Parameterized", s |-> <<>>,
          segments |-> [i \in 1..Len(Segments(pattern)) |-> Segment_of(Segments(pattern)[i])]]
    ELSE [tag |-> "Exact", s |-> pattern, segments |-> <<>>]

\* Pattern::parse. A Pattern is kept with all three payloads, the unused ones empty.
Pattern_parse(raw) ==
    LET pattern == StripTrailingSlash(raw) IN
    IF IsSome(strip_suffix(pattern, STR_slash_star))
    THEN [tag |-> "Wildcard", s |-> Unwrap(strip_suffix(pattern, STR_slash_star)), segments |-> <<>>]
    ELSE IF \E i \in 1..Len(pattern) : pattern[i] = COLON
    THEN [tag |-> "Parameterized", s |-> <<>>,
          segments |-> [i \in 1..Len(Segments(pattern)) |-> Segment_of(Segments(pattern)[i])]]
    ELSE [tag |-> "Exact", s |-> pattern, segments |-> <<>>]

\* PathParams: a map, kept as a set of <<key, value>> pairs with one value a key.
PathParams_new == {}

PathParams_insert(params, key, value) ==
    {kv \in params : kv[1] # key} \cup {<<key, value>>}

RECURSIVE BindSegments(_, _, _, _)
\* The loop over segments.iter().zip(path_segments) from pair i on: None at a
\* literal segment that differs, else the parameters bound.
BindSegments(segments, path_segments, i, params) ==
    IF i > Len(segments) THEN Some(params)
    ELSE IF segments[i].tag = "Static"
    THEN IF segments[i].s # path_segments[i] THEN None
         ELSE BindSegments(segments, path_segments, i + 1, params)
    ELSE BindSegments(segments, path_segments, i + 1,
                      PathParams_insert(params, segments[i].s, path_segments[i]))

\* Pattern::matches with the wildcard arm matching at a segment boundary only.
Pattern_matches_AtBoundary(pattern, raw_path) ==
    LET path == StripTrailingSlash(raw_path) IN
    CASE pattern.tag = "Exact" ->
            IF pattern.s = path THEN Some(PathParams_new) ELSE None
      [] pattern.tag = "Parameterized" ->
            IF Len(pattern.segments) # Len(Segments(path)) THEN None
            ELSE BindSegments(pattern.segments, Segments(path), 1, PathParams_new)
      [] OTHER ->
            IF path = pattern.s \/ starts_with(path, pattern.s \o STR_slash)
            THEN Some(PathParams_insert(PathParams_new, STR_wildcard, Unwrap(strip_prefix(path, pattern.s))))
            ELSE None

\* Pattern::matches.
Pattern_matches(pattern, raw_path) ==
    LET path == StripTrailingSlash(raw_path) IN
    CASE pattern.tag = "Exact" ->
            IF pattern.s = path THEN Some(PathParams_new) ELSE None
      [] pattern.tag = "Parameterized" ->
            IF Len(pattern.segments) # Len(Segments(path)) THEN None
            ELSE BindSegments(pattern.segments, Segments(path), 1, PathParams_new)
      [] OTHER ->
            IF IsSome(strip_prefix(path, pattern.s))
            THEN Some(PathParams_insert(PathParams_new, STR_wildcard, Unwrap(strip_prefix(path, pattern.s))))
            ELSE None

\* Route::new.
Route_new(method, pattern, handler) ==
    [method |-> method, pattern |-> Pattern_parse(pattern), handler |-> handler]

\* Route::matches with the method test left out.
Route_matches_AnyMethod(route, method, path) == Pattern_matches(route.pattern, path)

\* Route::matches.
Route_matches(route, method, path) ==
    IF route.method = method THEN Pattern_matches(route.pattern, path) ELSE None

\* The most routes a router is given.
MaxRoutes == 2

\* The handlers registered: each answers Response::new(status).
RouteHandlers == {[status |-> 200], [status |-> 202], [status |-> 404]}

\* The patterns registered and the paths requested.
RoutePatterns == {PATH_a, PATH_a_slash, PATH_a_id, PATH_a_star}

RoutePaths == {PATH_a, PATH_a_slash, PATH_b, PATH_a_x, PATH_ab}

\* tests::make_request, without the parse.
RouteRequest(method, path) ==
    [RequestWith(method, Headers_insert(Headers_new, STR_host, STR_localhost)) EXCEPT !.path = path]

\* The loop of Router::route taking the last matching route.
FindRoute_Last(routes, method, path) ==
    IF \E i \in 1..Len(routes) : IsSome(Route_matches(routes[i], method, path))
    THEN CHOOSE i \in 1..Len(routes) :
            /\ IsSome(Route_matches(routes[i], method, path))
            /\ \A j \in (i + 1)..Len(routes) : ~IsSome(Route_matches(routes[j], method, path))
    ELSE 0

\* The loop of Router::route: the index of the first route whose matches gives
\* Some, 0 when the loop ends without one.
FindRoute(routes, method, path) ==
    IF \E i \in 1..Len(routes) : IsSome(Route_matches(routes[i], method, path))
    THEN CHOOSE i \in 1..Len(routes) :
            /\ IsSome(Route_matches(routes[i], method, path))
            /\ \A j \in 1..(i - 1) : ~IsSome(Route_matches(routes[j], method, path))
    ELSE 0

RouterInit == EngineIdle /\ call = NoCall

\* Router::new.
Router_new ==
    /\ call.f = "none"
    /\ call' = [f |-> "router", routes |-> <<>>, phase |-> "build", request |-> None,
                invoked |-> <<>>, params |-> None, response |-> None]
    /\ UNCHANGED engineVars

\* Router::get, post, ...: add_route pushes Route::new(method, path, handler).
add_route ==
    /\ call.f = "router" /\ call.phase = "build"
    /\ Len(call.routes) < MaxRoutes
    /\ \E method \in {STR_GET, STR_POST}, path \in RoutePatterns, handler \in RouteHandlers :
         call' = [call EXCEPT !.routes = Append(@, Route_new(method, path, handler))]
    /\ UNCHANGED engineVars

\* Router::route up to the await of the matching handler, or to its return of
\* 404 when no route matches.
Router_route ==
    /\ call.f = "router" /\ call.phase = "build"
    /\ \E method \in {STR_GET, STR_POST}, path \in RoutePaths :
         LET request == RouteRequest(method, path)
             i == FindRoute(call.routes, request.method, request.path)
         IN IF i # 0
            THEN call' = [call EXCEPT
                            !.phase = "handler",
                            !.request = Some(request),
                            !.invoked = Append(@, i),
                            !.params = Route_matches(call.routes[i], request.method, request.path)]
            ELSE call' = [call EXCEPT
                            !.phase = "done",
                            !.request = Some(request),
                            !.response = Some(NotFoundResponse)]
    /\ UNCHANGED engineVars

\* The handler awaited by Router::route completes; route returns its response.
Route_handler_return ==
    /\ call.f = "router" /\ call.phase = "handler"
    /\ call' = [call EXCEPT
                  !.phase = "done",
                  !.response = Some(Response_new(call.routes[call.invoked[Len(call.invoked)]].handler.status))]
    /\ UNCHANGED engineVars

RouterNext == Router_new \/ add_route \/ Router_route \/ Route_handler_return

RouterSpec == RouterInit /\ [][RouterNext]_vars

(***************************************************************************)
(* A Response built call by call and serialized (src/http/response.rs).    *)
(***************************************************************************)
\* The most builder calls made on one Response before into_bytes.
MaxCalls == 2

\* The header names and values callers add.
CallerHeaderNames == {STR_Content_Length, STR_connection, STR_Content_Type, STR_X_Unit}

CallerHeaderValues == {STR_close, STR_3600}

\* The bodies callers set: empty, short, one holding an empty line of its own,
\* and one whose length takes two digits.
CallerBodies ==
    { <<>>, WIRE_hi, <<97, 13, 10, 13, 10, 98>>,
      <<48, 49, 50, 51, 52, 53, 54, 55, 56, 57, 97, 98>> }

ResponseInit == EngineIdle /\ call = NoCall

\* Response::new(status).
Response_build ==
    /\ call.f = "none"
    /\ \E status \in {200, 404} :
         call' = [f |-> "response", r |-> Response_new(status), calls |-> <<>>,
                  bytes |-> None, buf |-> <<>>]
    /\ UNCHANGED engineVars

\* The Response can take one more builder call.
Building == call.f = "response" /\ call.bytes = None /\ Len(call.calls) < MaxCalls

\* response.header(name, value).
Response_call_header ==
    /\ Building
    /\ \E name \in CallerHeaderNames, value \in CallerHeaderValues :
         call' = [call EXCEPT !.r = Response_header(@, name, value),
                              !.calls = Append(@, "header")]
    /\ UNCHANGED engineVars

\* response.add_header(name, value).
Response_call_add_header ==
    /\ Building
    /\ \E name \in CallerHeaderNames, value \in CallerHeaderValues :
         call' = [call EXCEPT !.r = Response_add_header(@, name, value),
                              !.calls = Append(@, "add_header")]
    /\ UNCHANGED engineVars

\* response.keep_alive(b).
Response_call_keep_alive ==
    /\ Building
    /\ \E b \in BOOLEAN :
         call' = [call EXCEPT !.r = Response_keep_alive(@, b),
                              !.calls = Append(@, "keep_alive")]
    /\ UNCHANGED engineVars

\* response.body(text).
Response_call_body ==
    /\ Building
    /\ \E text \in CallerBodies :
         call' = [call EXCEPT !.r = Response_body(@, text),
                              !.calls = Append(@, "body")]
    /\ UNCHANGED engineVars

\* response.into_bytes().
Response_into_bytes ==
    /\ call.f = "response" /\ call.bytes = None
    /\ call' = [call EXCEPT !.bytes = Some(into_bytes(call.r)),
                            !.buf = put_bytes(into_bytes(call.r))]
    /\ UNCHANGED engineVars

ResponseNext ==
    \/ Response_build
    \/ Response_call_header
    \/ Response_call_add_header
    \/ Response_call_keep_alive
    \/ Response_call_body
    \/ Response_into_bytes

ResponseSpec == ResponseInit /\ [][ResponseNext]_vars

(***************************************************************************)
(* A Headers map used call by call (src/http/headers.rs). The names are    *)
(* `aB` and `Ab`, which differ in the case of both letters, and `a@`.      *)
(***************************************************************************)
\* The most insert and remove calls made on one map.
MaxOps == 4

MapNames == {<<97, 66>>, <<65, 98>>, <<97, 64>>}

MapValues == {<<49>>, <<50>>}

HeadersInit == EngineIdle /\ call = NoCall

\* Headers::new().
Headers_call_new ==
    /\ call.f = "none"
    /\ call' = [f |-> "headers", inner |-> Headers_new, ops |-> 0, op |-> "new",
                name |-> <<>>, value |-> <<>>, result |-> None]
    /\ UNCHANGED engineVars

\* headers.insert(name, value).
Headers_call_insert ==
    /\ call.f = "headers" /\ call.ops < MaxOps
    /\ \E name \in MapNames, value \in MapValues :
         call' = [call EXCEPT !.inner = Headers_insert(@, name, value), !.ops = @ + 1,
                              !.op = "insert", !.name = name, !.value = value,
                              !.result = None]
    /\ UNCHANGED engineVars

\* headers.remove(name).
Headers_call_remove ==
    /\ call.f = "headers" /\ call.ops < MaxOps
    /\ \E name \in MapNames :
         call' = [call EXCEPT !.inner = Headers_remove(call.inner, name).inner, !.ops = @ + 1,
                              !.op = "remove", !.name = name, !.value = <<>>,
                              !.result = Some(Headers_remove(call.inner, name).removed)]
    /\ UNCHANGED engineVars

\* headers.get(name).
Headers_call_get ==
    /\ call.f = "headers"
    /\ \E name \in MapNames :
         call' = [call EXCEPT !.op = "get", !.name = name, !.value = <<>>,
                              !.result = Some(Headers_get(call.inner, name))]
    /\ UNCHANGED engineVars

\* headers.get_all(name).collect().
Headers_call_get_all ==
    /\ call.f = "headers"
    /\ \E name \in MapNames :
         call' = [call EXCEPT !.op = "get_all", !.name = name, !.value = <<>>,
                              !.result = Some(Headers_get_all(call.inner, name))]
    /\ UNCHANGED engineVars

\* headers.contains(name).
Headers_call_contains ==
    /\ call.f = "headers"
    /\ \E name \in MapNames :
         call' = [call EXCEPT !.op = "contains", !.name = name, !.value = <<>>,
                              !.result = Some(Headers_contains(call.inner, name))]
    /\ UNCHANGED engineVars

HeadersNext ==
    \/ Headers_call_new
    \/ Headers_call_insert
    \/ Headers_call_remove
    \/ Headers_call_get
    \/ Headers_call_get_all
    \/ Headers_call_contains

HeadersSpec == HeadersInit /\ [][HeadersNext]_vars

(***************************************************************************)
(* Pattern::parse and Pattern::matches on their own (src/router/mod.rs):   *)
(* every string of up to MaxLen bytes of '/', ':', '*' and a letter as the *)
(* pattern and as the path, and some longer ones.                          *)
(***************************************************************************)
\* The longest pattern and path enumerated byte by byte.
MaxLen == 3

PatternBytes == {47, 58, 42, 97}

Strings(n) == UNION {[1..k -> PatternBytes] : k \in 0..n}

PATH_x_y == <<47, 58, 120, 47, 58, 121>>  \* "/:x/:y"
PATH_x_x == <<47, 58, 120, 47, 58, 120>>  \* "/:x/:x"
PATH_a_id_slash == <<47, 97, 47, 58, 105, 100, 47>>  \* "/a/:id/"
PATH_a_star_slash == <<47, 97, 47, 42, 47>>  \* "/a/*/"
PATH_a_x_slash == <<47, 97, 47, 120, 47>>  \* "/a/x/"
PATH_1_2 == <<47, 49, 47, 50>>  \* "/1/2"
PATH_a_x_y == <<47, 97, 47, 120, 47, 121>>  \* "/a/x/y"

PatternStrings ==
    Strings(MaxLen) \cup RoutePatterns \cup {PATH_x_y, PATH_x_x, PATH_a_id_slash, PATH_a_star_slash}

PathStrings ==
    Strings(MaxLen) \cup RoutePaths \cup {PATH_a_x_slash, PATH_1_2, PATH_a_x_y}

PatternInit == EngineIdle /\ call = NoCall

\* Pattern::parse(raw).
Pattern_call_parse ==
    /\ call.f = "none"
    /\ \E raw \in PatternStrings :
         call' = [f |-> "pattern", raw |-> raw, pattern |-> Pattern_parse(raw),
                  path |-> None, result |-> None]
    /\ UNCHANGED engineVars

\* pattern.matches(path).
Pattern_call_matches ==
    /\ call.f = "pattern" /\ call.path = None
    /\ \E path \in PathStrings :
         call' = [call EXCEPT !.path = Some(path),
                              !.result = Some(Pattern_matches(call.pattern, path))]
    /\ UNCHANGED engineVars

PatternNext == Pattern_call_parse \/ Pattern_call_matches

PatternSpec == PatternInit /\ [][PatternNext]_vars

(***************************************************************************)
(* Extensions (src/context/mod.rs): HashMap<TypeId, Box<dyn Any>>. The map *)
(* is a set of <<key, value>> pairs; a boxed value carries the type it was *)
(* made from, which downcast tests.                                        *)
(***************************************************************************)
\* The types T of the calls, and the values of each.
TypeIds == {"u32", "str", "bool"}

TypeValues == {1, 2}

\* Box::new(value) of a value of type T, as dyn Any.
Box_new(T, value) == [type |-> T, v |-> value]

\* Box<dyn Any>::downcast::<T>().ok() and downcast_ref::<T>().
downcast(T, boxed) == IF boxed.type = T THEN Some(boxed.v) ELSE None

\* Option::and_then with a downcast to T.
and_then_downcast(T, o) == IF IsSome(o) THEN downcast(T, Unwrap(o)) ELSE None

Extensions_new == {}

\* Extensions::insert::<T>(value): the map after it and the Option<T> returned.
Extensions_insert(map, T, value) ==
    [map |-> HashMap_insert(map, T, Box_new(T, value)).map,
     result |-> and_then_downcast(T, HashMap_insert(map, T, Box_new(T, value)).old)]

Extensions_contains(map, T) == \E kv \in map : kv[1] = T

\* Extensions::get::<T>().
Extensions_get(map, T) == and_then_downcast(T, HashMap_get(map, T))

\* Extensions::get_mut::<T>() with `value` written through the reference it
\* returns: the map after it, and the T the reference pointed to (None when
\* get_mut returned None and nothing was written).
Extensions_get_mut(map, T, value) ==
    IF IsSome(and_then_downcast(T, HashMap_get(map, T)))
    THEN [map |-> {kv \in map : kv[1] # T} \cup {<<T, Box_new(T, value)>>},
          result |-> and_then_downcast(T, HashMap_get(map, T))]
    ELSE [map |-> map, result |-> None]

\* remove returning the value and leaving it in the map.
Extensions_remove_Keep(map, T) ==
    [map |-> map, result |-> and_then_downcast(T, HashMap_get(map, T))]

\* Extensions::remove::<T>(): the map after it and the Option<T> returned.
Extensions_remove(map, T) ==
    [map |-> HashMap_remove(map, T).map,
     result |-> and_then_downcast(T, HashMap_remove(map, T).old)]

ExtensionsInit == EngineIdle /\ call = NoCall

\* Extensions::new().
Extensions_call_new ==
    /\ call.f = "none"
    /\ call' = [f |-> "extensions", map |-> Extensions_new, op |-> "new", type |-> "",
                value |-> 0, result |-> None]
    /\ UNCHANGED engineVars

\* ext.insert::<T>(value).
Extensions_call_insert ==
    /\ call.f = "extensions"
    /\ \E T \in TypeIds, value \in TypeValues :
         call' = [call EXCEPT !.map = Extensions_insert(call.map, T, value).map,
                              !.op = "insert", !.type = T, !.value = value,
                              !.result = Some(Extensions_insert(call.map, T, value).result)]
    /\ UNCHANGED engineVars

\* ext.remove::<T>().
Extensions_call_remove ==
    /\ call.f = "extensions"
    /\ \E T \in TypeIds :
         call' = [call EXCEPT !.map = Extensions_remove(call.map, T).map,
                              !.op = "remove", !.type = T, !.value = 0,
                              !.result = Some(Extensions_remove(call.map, T).result)]
    /\ UNCHANGED engineVars

\* if let Some(x) = ext.get_mut::<T>() { *x = value }.
Extensions_call_get_mut ==
    /\ call.f = "extensions"
    /\ \E T \in TypeIds, value \in TypeValues :
         call' = [call EXCEPT !.map = Extensions_get_mut(call.map, T, value).map,
                              !.op = "get_mut", !.type = T, !.value = value,
                              !.result = Some(Extensions_get_mut(call.map, T, value).result)]
    /\ UNCHANGED engineVars

\* ext.get::<T>().
Extensions_call_get ==
    /\ call.f = "extensions"
    /\ \E T \in TypeIds :
         call' = [call EXCEPT !.op = "get", !.type = T, !.value = 0,
                              !.result = Some(Extensions_get(call.map, T))]
    /\ UNCHANGED engineVars

\* ext.contains::<T>().
Extensions_call_contains ==
    /\ call.f = "extensions"
    /\ \E T \in TypeIds :
         call' = [call EXCEPT !.op = "contains", !.type = T, !.value = 0,
                              !.result = Some(Extensions_contains(call.map, T))]
    /\ UNCHANGED engineVars

ExtensionsNext ==
    \/ Extensions_call_new
    \/ Extensions_call_insert
    \/ Extensions_call_remove
    \/ Extensions_call_get_mut
    \/ Extensions_call_get
    \/ Extensions_call_contains

ExtensionsSpec == ExtensionsInit /\ [][ExtensionsNext]_vars

(***************************************************************************)
(* The query string of a parsed Request (src/http/request.rs): a request   *)
(* line whose target carries up to MaxPairs pairs joined by '&'.           *)
(***************************************************************************)
\* The most pairs of a query string.
MaxPairs == 2

PAIR_a_1 == <<97, 61, 49>>  \* "a=1"
PAIR_a_2 == <<97, 61, 50>>  \* "a=2"
PAIR_b_1 == <<98, 61, 49>>  \* "b=1"
PAIR_a == <<97>>  \* "a"
PAIR_ab == <<97, 43, 98, 61, 49, 43, 50>>  \* "a+b=1+2"
PAIR_a_1_2 == <<97, 61, 49, 61, 50>>  \* "a=1=2"
PAIR_empty == <<>>  \* ""
PAIR_eq_1 == <<61, 49>>  \* "=1"
WIRE_GET_s == <<71, 69, 84, 32, 47, 115>>  \* "GET /s"
WIRE_HTTP11_end == <<32, 72, 84, 84, 80, 47, 49, 46, 49, 13, 10, 13, 10>>  \* " HTTP/1.1\r\n\r\n"

QueryPairs == {PAIR_a_1, PAIR_a_2, PAIR_b_1, PAIR_a, PAIR_ab, PAIR_a_1_2, PAIR_empty, PAIR_eq_1}

\* The keys looked up: "a", "b", "a b", "a+b" and "".
QueryKeys == {<<97>>, <<98>>, <<97, 32, 98>>, <<97, 43, 98>>, <<>>}

QueryInit == EngineIdle /\ call = NoCall

\* Request::parse of a request whose target has no '?', or a '?' and the pairs.
Query_call_parse ==
    /\ call.f = "none"
    /\ \E n \in 0..MaxPairs : \E pairs \in [1..n -> QueryPairs] :
         LET wire == WIRE_GET_s \o (IF n = 0 THEN <<>> ELSE <<63>> \o join(pairs, <<38>>))
                        \o WIRE_HTTP11_end
         IN call' = [f |-> "query", pairs |-> pairs, wire |-> wire,
                     parsed |-> Request_parse(wire), op |-> "parse", key |-> <<>>,
                     result |-> None]
    /\ UNCHANGED engineVars

\* request.query_param(key).
Query_call_query_param ==
    /\ call.f = "query" /\ call.parsed.tag = "Ok" /\ call.op = "parse"
    /\ \E key \in QueryKeys :
         call' = [call EXCEPT !.op = "query_param", !.key = key,
                              !.result = Some(query_param(call.parsed.request, key))]
    /\ UNCHANGED engineVars

\* request.query_string().
Query_call_query_string ==
    /\ call.f = "query" /\ call.parsed.tag = "Ok" /\ call.op = "parse"
    /\ call' = [call EXCEPT !.op = "query_string",
                            !.result = Some(query_string(call.parsed.request))]
    /\ UNCHANGED engineVars

QueryNext == Query_call_parse \/ Query_call_query_param \/ Query_call_query_string

QuerySpec == QueryInit /\ [][QueryNext]_vars

(***************************************************************************)
(* Claims about the connection engine.                                     *)
(***************************************************************************)
\* The declared body length of a request: its Content-Length, 0 without one.
DeclaredLength(r) ==
    LET cl == content_length(r) IN IF cl = None THEN 0 ELSE Unwrap(cl)

\* The written message m has the status and says `Connection: close`.
IsClosingResponse(m, status) ==
    /\ m.status_line[1] = status
    /\ Headers_get(m.lines, STR_connection) = Some(STR_close)

\* b is a proper prefix of h.
StrictPrefix(b, h) == Len(b) < Len(h) /\ b = SubSeq(h, 1, Len(b))

\* How often the event e is in the trace t.
Count(t, e) == Cardinality({i \in 1..Len(t) : t[i] = e})

\* The keep-alive determination is false in exactly the two cases the
\* specification names: HTTP/1.0 without `Connection: keep-alive`, or an
\* explicit `Connection: close` for either version.
NamedAsClosing(r) ==
    LET conn == Headers_get(r.headers, STR_connection) IN
    \/ r.version = 0 /\ ~(IsSome(conn) /\ eq_ignore_ascii_case(Unwrap(conn), STR_keep_alive))
    \/ IsSome(conn) /\ eq_ignore_ascii_case(Unwrap(conn), STR_close)

\* C1: after the response to a request is written (and flushed), the engine
\* closes exactly when the request is HTTP/1.0 without `Connection: keep-alive`
\* or carries `Connection: close`; in every other case it goes back to reading.
C1_ClosesExactlyWhenNamed ==
    \A c \in Conns :
        last[c].op = "flush" => (pc[c] = "closed" <=> NamedAsClosing(Unwrap(req[c])))

\* C2: per connection the handler runs for one request at a time: every
\* invocation but the first comes right after the flush of the previous
\* response, every flush after its write, every write after the handler's
\* return, every return after its invocation; while a request is in dispatch
\* (invoked, not yet flushed) the task is in its handler, write or flush.
C2_Sequential ==
    \A c \in Conns :
        /\ \A i \in 1..Len(trace[c]) :
              /\ trace[c][i] = "invoke" => (i = 1 \/ trace[c][i - 1] = "flush")
              /\ trace[c][i] = "return" => (i > 1 /\ trace[c][i - 1] = "invoke")
              /\ trace[c][i] = "write" => (i > 1 /\ trace[c][i - 1] = "return")
              /\ trace[c][i] = "flush" => (i > 1 /\ trace[c][i - 1] = "write")
        /\ Count(trace[c], "invoke") - Count(trace[c], "flush") \in {0, 1}
        /\ Count(trace[c], "invoke") - Count(trace[c], "flush") = 1
              => pc[c] \in {"handler", "write", "flush", "failed"}

\* A response is written and not yet flushed while the buffer already holds the
\* whole next request.
C2_NextRequestWaits ==
    \E c \in Conns :
        /\ pc[c] = "flush"
        /\ Request_parse(split_to(buf[c], loc[c].total_needed)).tag = "Ok"

\* C3: a buffer above MAX_REQUEST_SIZE after a read goes to the 413 branch:
\* the codec and the handler are not invoked for it, the response written is a
\* 413 with `Connection: close`, and the connection closes; a buffer of exactly
\* MAX_REQUEST_SIZE bytes goes to the codec.
C3_TooLarge ==
    \A c \in Conns :
        /\ (last[c].op = "read" /\ last[c].result # "eof" /\ Len(buf[c]) > MAX_REQUEST_SIZE)
              => /\ last[c].result = "too_large"
                 /\ ~last[c].parsed
                 /\ pc[c] = "write_final"
                 /\ IsClosingResponse(Unwrap(pending[c]), 413)
        /\ Len(buf[c]) > MAX_REQUEST_SIZE
              => /\ pc[c] \in {"write_final", "closed", "failed"}
                 /\ pc[c] = "closed" =>
                       (out[c] # <<>> /\ IsClosingResponse(out[c][Len(out[c])], 413))
        /\ (last[c].op = "read" /\ last[c].result # "eof" /\ Len(buf[c]) = MAX_REQUEST_SIZE)
              => last[c].parsed /\ last[c].result # "too_large"
        /\ last[c].result = "too_large" => Len(buf[c]) > MAX_REQUEST_SIZE

\* The connection closed on a 413 although the buffer holds a complete, valid request.
C3_ValidRequestRejected ==
    \E c \in Conns :
        /\ pc[c] = "closed"
        /\ Len(buf[c]) > MAX_REQUEST_SIZE
        /\ Request_parse(buf[c]).tag = "Ok"
        /\ Len(out[c]) = 1
        /\ IsClosingResponse(out[c][1], 413)
        /\ Count(trace[c], "invoke") = 0

\* C4: when Request::parse returns a Parse or MissingField error for the
\* buffer, the engine invokes no handler and goes to write a 400 with
\* `Connection: close`; once that is written the connection is closed.
C4_BadRequest ==
    \A c \in Conns :
        /\ (last[c].op = "read" /\ last[c].parsed
               /\ Request_parse(buf[c]).tag = "Err"
               /\ Request_parse(buf[c]).kind \in {"Parse", "MissingField"})
              => /\ pc[c] = "write_final"
                 /\ IsClosingResponse(Unwrap(pending[c]), 400)
        /\ last[c].op = "write_final"
              => /\ pc[c] = "closed"
                 /\ out[c][Len(out[c])] = Unwrap(pending[c])
                 /\ trace[c][Len(trace[c])] = "write_final"

\* A request was answered, then the next bytes were malformed: a 400 was
\* written and the connection closed.
C4_ClosedOnBadRequest ==
    \E c \in Conns :
        /\ pc[c] = "closed"
        /\ last[c].op = "write_final"
        /\ Len(out[c]) = 2
        /\ IsClosingResponse(out[c][2], 400)
        /\ Count(trace[c], "invoke") = 1

\* Header blocks of well-formed requests: every proper prefix of one is a
\* valid-so-far request whose header block is not terminated.
ValidHeads ==
    { Req0(WIRE_GET11, <<>>),
      Req0(WIRE_GET10, WIRE_CONN_Keep_Alive),
      Req0(WIRE_GET11, WIRE_Conn_upgrade),
      Req0(WIRE_POST11, WIRE_CL(2)),
      Req0(WIRE_POST11, WIRE_CL(USIZE_MAX)),
      Req0(WIRE_POST11, WIRE_CL_bad),
      PaddedRequest(MAX_REQUEST_SIZE),
      PaddedRequest(MAX_REQUEST_SIZE + 2) }

\* The buffer b is a valid-so-far prefix with an unterminated header block.
ValidSoFar(b) == \E h \in ValidHeads : StrictPrefix(b, h)

\* A step of connection c that is a read of at least one byte.
ReadStep(c) == pc[c] = "read" /\ rcvd'[c] > rcvd[c]

\* What staying in Reading means for a read step of connection c: the task
\* awaits the next read, nothing was written, no handler was invoked, and the
\* buffer is the old one followed by the bytes read.
StaysReading(c) ==
    /\ pc'[c] = "read"
    /\ out'[c] = out[c]
    /\ pending'[c] = pending[c]
    /\ trace'[c] = trace[c]
    /\ buf'[c] = buf[c] \o SubSeq(script[c], rcvd[c] + 1, rcvd'[c])

\* C5 as stated: whenever a read leaves a valid-so-far prefix with an
\* unterminated header block in the buffer, Request::parse returns Incomplete
\* for it and the engine stays in Reading.
C5_IncompleteStaysReading ==
    [][\A c \in Conns :
          (ReadStep(c) /\ ValidSoFar(buf'[c]))
             => /\ Request_parse(buf'[c]).tag = "Err"
                /\ Request_parse(buf'[c]).kind = "Incomplete"
                /\ StaysReading(c)]_vars

\* C5 amended: Request::parse returns Incomplete for every valid-so-far prefix
\* with an unterminated header block, and the engine stays in Reading on it as
\* long as the buffer holds at most MAX_REQUEST_SIZE bytes.
C5_IncompleteStaysReadingWithinCap ==
    [][\A c \in Conns :
          (ReadStep(c) /\ ValidSoFar(buf'[c]))
             => /\ Request_parse(buf'[c]).tag = "Err"
                /\ Request_parse(buf'[c]).kind = "Incomplete"
                /\ Len(buf'[c]) <= MAX_REQUEST_SIZE => StaysReading(c)]_vars

\* A read ended in the middle of a header line and the task reads on.
C5_MidHeaderLine ==
    \E c \in Conns :
        /\ pc[c] = "read"
        /\ last[c].op = "read"
        /\ last[c].result = "incomplete"
        /\ ValidSoFar(buf[c])
        /\ Len(buf[c]) > Len(WIRE_POST11) + 3
        /\ buf[c][Len(buf[c])] \notin {13, 10}
        /\ out[c] = <<>>

\* C6: the handler is never invoked for a request until the buffer holds
\* body_offset + Content-Length bytes, that is, until as many body bytes as
\* declared are behind the header block.
C6_HandlerAfterWholeBody ==
    \A c \in Conns :
        pc[c] = "handler" => Len(Unwrap(req[c]).body) >= DeclaredLength(Unwrap(req[c]))

\* C7: the step that ends a dispatch (the flush is done) removes exactly
\* body_offset + Content-Length leading bytes from the buffer and leaves the
\* bytes behind them as they were. body_offset is the length of the buffer
\* less the bytes Request::parse put in the request's body.
C7_ConsumesExactlyTheRequest ==
    [][\A c \in Conns :
          (pc[c] = "flush" /\ pc'[c] \in {"read", "closed"})
             => LET r == Unwrap(req[c])
                    n == (Len(buf[c]) - Len(r.body)) + DeclaredLength(r)
                IN buf'[c] = SubSeq(buf[c], n + 1, Len(buf[c]))]_vars

\* The buffer b holds a complete request without a Content-Length header.
HoldsBodilessRequest(b) ==
    /\ Request_parse(b).tag = "Ok"
    /\ ~Headers_contains(Request_parse(b).request.headers, STR_content_length)

\* C8 (for requests without a body): when the peer half-closes a kept-alive
\* connection that had no I/O error, every complete request it sent has been
\* dispatched and answered, so none is left in the buffer.
C8_NoRequestLeftBehind ==
    \A c \in Conns :
        (pc[c] = "closed" /\ last[c].op = "read" /\ last[c].result = "eof")
            => ~HoldsBodilessRequest(buf[c])

\* C9: a read of zero bytes closes the connection in that step, writing
\* nothing and invoking no handler, and a closed connection does nothing more.
C9_ZeroReadCloses ==
    [][\A c \in Conns :
          /\ (pc[c] = "read" /\ last'[c] # last[c] /\ last'[c].result = "eof")
                => /\ pc'[c] = "closed"
                   /\ out'[c] = out[c]
                   /\ trace'[c] = trace[c]
                   /\ buf'[c] = buf[c]
          /\ pc[c] = "closed"
                => /\ pc'[c] = "closed"
                   /\ out'[c] = out[c]
                   /\ trace'[c] = trace[c]]_vars

\* The peer closed while a complete request was still in the buffer: one
\* response was written, for the request before it.
C9_ClosedWithBytesLeft ==
    \E c \in Conns :
        /\ pc[c] = "closed"
        /\ last[c].result = "eof"
        /\ Request_parse(buf[c]).tag = "Ok"
        /\ Len(out[c]) = 1
        /\ Count(trace[c], "invoke") = 1

\* The task of connection c completes the flush of a handler's response.
FlushStep(c) == pc[c] = "flush" /\ last'[c].op = "flush" /\ trace'[c] # trace[c]

\* C27: the response status never influences the loop-or-close decision: after
\* the write and flush of a handler's response, the 404 of a router without a
\* matching route and the 500 of an exhausted middleware chain included, the
\* engine is back in Reading when is_keep_alive of the request is true and
\* closes when it is false; and the write of such a response leads to its flush.
C27_StatusDoesNotClose ==
    [][\A c \in Conns :
        /\ FlushStep(c) =>
              pc'[c] = IF is_keep_alive(Unwrap(req[c])) THEN "read" ELSE "closed"
        /\ (pc[c] = "write" /\ trace'[c] # trace[c]) => pc'[c] = "flush"
    ]_vars

\* A connection is back in Reading after it wrote the 404 of the router and the
\* 500 of the pipeline, one after the other.
C27_ReadingAfter404And500 ==
    \E c \in Conns :
        /\ pc[c] = "read" /\ last[c].op = "flush"
        /\ Len(out[c]) = 2
        /\ out[c][1] = into_bytes(NotFoundResponse)
        /\ out[c][2] = into_bytes(FallbackResponse)

(***************************************************************************)
(* Claims about Request::is_keep_alive (under KeepAliveSpec).              *)
(***************************************************************************)
\* C10: without a Connection header is_keep_alive is true for HTTP/1.1 and
\* false for HTTP/1.0; with a first Connection header whose value is
\* `keep-alive` in any ASCII casing it is true for either version, with
\* `close` in any casing false for either version.
C10_KeepAlive ==
    call.f = "is_keep_alive" =>
        /\ call.kind = "absent" => call.result = (call.version = 1)
        /\ call.kind = "keep-alive" => call.result = TRUE
        /\ call.kind = "close" => call.result = FALSE

\* HTTP/1.0 with `CONNECTION: Keep-Alive` after a Host header is kept alive.
C10_MixedCaseKeepAlive ==
    /\ call.f = "is_keep_alive"
    /\ call.version = 0
    /\ Len(call.headers) = 2
    /\ call.headers[2][1] = [i \in 1..Len(STR_connection) |-> to_ascii_uppercase(STR_connection[i])]
    /\ call.headers[2][2] = <<75, 101, 101, 112, 45, 65, 108, 105, 118, 101>>
    /\ call.result = TRUE

(***************************************************************************)
(* Claims about Server::run and its tasks (under ServerSpec).              *)
(***************************************************************************)
\* Everything the task of connection c owns.
Local(c) ==
    <<script[c], rcvd[c], buf[c], pc[c], req[c], loc[c], pending[c], out[c], trace[c], last[c]>>

\* The task of connection c has ended.
Ended(c) == pc[c] \in {"closed", "failed", "panicked"}

\* The listener can accept the next connection, if a peer is connecting.
ListenerAccepts ==
    /\ listener.running
    /\ \A c \in ServerConns :
          (pc[c] = "connecting" /\ \A d \in ServerConns : d < c => pc[d] # "connecting")
             => ENABLED Accept(c)

CanResume(c) ==
    CASE pc[c] = "read" -> ENABLED ReadZero(c) /\ (rcvd[c] < Len(script[c]) => ReadSizes(c) # {})
      [] pc[c] = "handler" -> ENABLED HandlerReturn(c)
      [] pc[c] = "write" -> ENABLED WriteAll(c)
      [] pc[c] = "flush" -> ENABLED Flush(c)
      [] pc[c] = "write_final" -> ENABLED WriteFinal(c)
      [] OTHER -> FALSE

\* C12: every step that changes something of connection c is the accept of c
\* or a step of c's own task, and changes nothing of any other connection nor
\* the listener; a task that has not ended always has a next step it can take,
\* whatever the other tasks are suspended in, and so has the listener.
C12_Independent ==
    [][/\ \A c \in ServerConns :
            Local(c)' # Local(c)
               => /\ Accept(c) \/ TaskStep(c)
                  /\ listener' = listener
                  /\ \A d \in ServerConns \ {c} : Local(d)' = Local(d)
       /\ \A c \in ServerConns :
            (pc[c] # "connecting" /\ ~Ended(c)) => CanResume(c)
       /\ ListenerAccepts]_vars

\* The first connection is still suspended in its handler, with nothing
\* written, while the second, accepted after it, has been answered and closed.
C12_OvertakenInHandler ==
    /\ pc[1] = "handler"
    /\ out[1] = <<>>
    /\ pc[2] = "closed"
    /\ Len(out[2]) = 1

(***************************************************************************)
(* Claims about the middleware pipeline (under PipelineSpec).              *)
(***************************************************************************)
\* A pipeline pass is under way or done.
InPass == call.f = "pipeline"

\* The step is a call of Next::run.
RunStep == InPass /\ call.mode = "run" /\ call' # call

\* The units invoked so far are positions 0, 1, 2, ... in chain order, each
\* once, and a step that invokes a unit invokes the next position while every
\* unit before it is suspended in its next.run(ctx).await, having forwarded.
InvokedInChainOrder ==
    /\ InPass => /\ call.invoked = [i \in 1..Len(call.invoked) |-> i - 1]
                 /\ Len(call.invoked) <= Len(call.chain)
    /\ (InPass /\ call'.invoked # call.invoked)
          => /\ call'.invoked = Append(call.invoked, Len(call.invoked))
             /\ call.stack = call.invoked
             /\ \A i \in 1..Len(call.invoked) :
                    Unit_plan(call.chain[i], call.request) = "forward"

C14_ExhaustedGives500 ==
    [][/\ InPass => /\ call.index <= Len(call.chain)
                    /\ \A i \in 1..Len(call.invoked) : call.invoked[i] < Len(call.chain)
       /\ (RunStep /\ call.index >= Len(call.chain))
             => /\ call'.response = Some(FallbackResponse)
                /\ call'.mode = "return"
                /\ call'.invoked = call.invoked
                /\ call'.stack = call.stack
       /\ (InPass /\ call.mode = "done"
             /\ \A i \in 1..Len(call.chain) : Unit_plan(call.chain[i], call.request) = "forward")
             => /\ Unwrap(call.response).status = 500
                /\ Unwrap(call.response).body = STR_no_response
                /\ Len(call.invoked) = Len(call.chain)]_vars

\* A chain of two forwarding units ended with the fallback.
C14_AllForwarded ==
    /\ InPass
    /\ call.mode = "done"
    /\ Len(call.chain) = 2
    /\ call.invoked = <<0, 1>>
    /\ Unwrap(call.response).status = 500

(***************************************************************************)
(* Claims about CorsMiddleware as a unit of the pipeline.                  *)
(***************************************************************************)
\* The unit that was invoked last and has not returned.
TopUnit == call.chain[call.stack[Len(call.stack)] + 1]

\* The names of the headers of the response r, in order.
HeaderNames(r) == [i \in 1..Len(r.headers) |-> r.headers[i][1]]

\* The request carries an Origin header that the allow-list accepts.
OriginAccepted(cors, request) ==
    /\ IsSome(Headers_get(request.headers, STR_origin))
    /\ \/ Contains(cors.allowed_origins, STR_star)
       \/ Contains(cors.allowed_origins, Unwrap(Headers_get(request.headers, STR_origin)))

\* The origin allowed for an accepted request: the wildcard if listed, else its Origin.
AllowedOrigin(cors, request) ==
    IF Contains(cors.allowed_origins, STR_star) THEN STR_star
    ELSE Unwrap(Headers_get(request.headers, STR_origin))

\* The header names CORS adds, with Vary when the allowed origin is not the wildcard.
VaryIfSpecific(cors, request) ==
    IF AllowedOrigin(cors, request) # STR_star THEN <<STR_Vary>> ELSE <<>>

\* A CorsMiddleware was just invoked for a request of the given kind.
CorsInvoked(preflight, accepted) ==
    /\ InPass /\ call.mode = "unit"
    /\ TopUnit.kind = "cors"
    /\ (call.request.method = STR_OPTIONS) = preflight
    /\ OriginAccepted(TopUnit.cors, call.request) = accepted

\* The downstream response is arriving in a CorsMiddleware that forwarded a
\* request of the given kind.
CorsResumes(accepted) ==
    /\ InPass /\ call.mode = "return" /\ call.stack # <<>>
    /\ TopUnit.kind = "cors"
    /\ OriginAccepted(TopUnit.cors, call.request) = accepted

\* The step is the call of next.run(ctx) by the unit just invoked: the cursor
\* goes on as the unit got it and nothing is answered yet.
Forwards ==
    /\ call'.mode = "run"
    /\ call'.index = call.index
    /\ call'.stack = call.stack
    /\ call'.response = call.response

\* C15: a CorsMiddleware invoked for an OPTIONS request with an accepted
\* Origin returns without calling next.run: 204 No Content, no body, the
\* headers Access-Control-Allow-Origin (the allowed origin), -Methods,
\* -Headers and Access-Control-Max-Age, then `Vary: Origin` exactly when the
\* allowed origin is not the wildcard; no unit behind it is ever invoked.
C15_PreflightShortCircuits ==
    [][/\ CorsInvoked(TRUE, TRUE)
          => LET r == Unwrap(call'.response) IN
             /\ call'.mode = "return"
             /\ call'.invoked = call.invoked
             /\ call'.index = call.index
             /\ r.status = 204
             /\ r.body = <<>>
             /\ HeaderNames(r) = <<STR_ACA_Origin, STR_ACA_Methods, STR_ACA_Headers, STR_AC_Max_Age>>
                                    \o VaryIfSpecific(TopUnit.cors, call.request)
             /\ r.headers[1][2] = AllowedOrigin(TopUnit.cors, call.request)
             /\ r.headers[2][2] = join(TopUnit.cors.allowed_methods, STR_comma_sp)
             /\ r.headers[3][2] = join(TopUnit.cors.allowed_headers, STR_comma_sp)
             /\ r.headers[4][2] = STR_3600
       /\ \A i \in 1..(IF InPass THEN Len(call.invoked) ELSE 0) :
            (/\ call.chain[i].kind = "cors"
             /\ call.request.method = STR_OPTIONS
             /\ OriginAccepted(call.chain[i].cors, call.request))
                => Len(call.invoked) = i]_vars

\* A preflight was answered by a CorsMiddleware in front of a terminal
\* handler, which was not invoked.
C15_HandlerNotReached ==
    /\ InPass /\ call.mode = "done"
    /\ Len(call.chain) = 2
    /\ call.chain[1].kind = "cors" /\ call.chain[2].kind = "respond"
    /\ call.request.method = STR_OPTIONS
    /\ call.invoked = <<0>>
    /\ Unwrap(call.response).status = 204

\* C16: a CorsMiddleware invoked for a non-OPTIONS request with an accepted
\* Origin calls next.run once, and returns the downstream response with its
\* status, body and headers as they were, followed by the headers
\* Access-Control-Allow-Origin, -Methods, -Headers, then `Vary: Origin`
\* exactly when the allowed origin is not the wildcard.
C16_ActualDecorated ==
    [][/\ CorsInvoked(FALSE, TRUE) => Forwards
       /\ (CorsResumes(TRUE) /\ call.request.method # STR_OPTIONS)
          => LET down == Unwrap(call.response)
                 r == Unwrap(call'.response)
                 n == Len(down.headers)
             IN /\ r.status = down.status
                /\ r.body = down.body
                /\ r.keep_alive = down.keep_alive
                /\ SubSeq(r.headers, 1, n) = down.headers
                /\ SubSeq(HeaderNames(r), n + 1, Len(r.headers))
                      = <<STR_ACA_Origin, STR_ACA_Methods, STR_ACA_Headers>>
                           \o VaryIfSpecific(TopUnit.cors, call.request)
                /\ r.headers[n + 1][2] = AllowedOrigin(TopUnit.cors, call.request)
                /\ call'.stack = SubSeq(call.stack, 1, Len(call.stack) - 1)]_vars

\* A GET with an Origin went through CORS and a decorating unit to a handler:
\* the response has the handler's status and body, the decorating unit's
\* header and then the three CORS headers.
C16_DecoratedAfterDownstream ==
    /\ InPass /\ call.mode = "done"
    /\ Len(call.chain) = 3
    /\ call.chain[1].kind = "cors" /\ call.chain[2].kind = "decorate" /\ call.chain[3].kind = "respond"
    /\ call.request.method = STR_GET
    /\ call.invoked = <<0, 1, 2>>
    /\ Unwrap(call.response).status = 200
    /\ HeaderNames(Unwrap(call.response)) = <<STR_X_Unit, STR_ACA_Origin, STR_ACA_Methods, STR_ACA_Headers>>

\* C17: a CorsMiddleware invoked for a request of any method that has no
\* Origin header, or an Origin the allow-list does not accept, calls next.run
\* once and returns the downstream response exactly as it got it.
C17_Transparent ==
    [][/\ (CorsInvoked(TRUE, FALSE) \/ CorsInvoked(FALSE, FALSE)) => Forwards
       /\ CorsResumes(FALSE)
          => /\ call'.response = call.response
             /\ call'.stack = SubSeq(call.stack, 1, Len(call.stack) - 1)]_vars

\* An OPTIONS request without Origin went through CORS to the handler and came
\* back as the handler answered it.
C17_OptionsWithoutOrigin ==
    /\ InPass /\ call.mode = "done"
    /\ Len(call.chain) = 2
    /\ call.chain[1].kind = "cors" /\ call.chain[2].kind = "respond"
    /\ call.request.method = STR_OPTIONS
    /\ call.request.headers = Headers_new
    /\ call.invoked = <<0, 1>>
    /\ Unwrap(call.response) = Response_body(Response_new(200), WIRE_hi)

(***************************************************************************)
(* Claims about Router::route (under RouterSpec).                          *)
(***************************************************************************)
\* Route i of the router has the request's method and a pattern for which
\* Pattern::matches gives Some on the request's path.
RouteFits(i) ==
    LET route == call.routes[i]
        request == Unwrap(call.request)
    IN /\ route.method = request.method
       /\ IsSome(Pattern_matches(route.pattern, request.path))

\* A call of Router::route has come to its handler or to its end.
Routed == call.f = "router" /\ call.phase \in {"handler", "done"}

\* C18: Router::route invokes exactly the earliest-registered route that has
\* the request's method and a matching pattern, no other route before or
\* after it, and returns that handler's response.
C18_FirstMatchWins ==
    (Routed /\ \E i \in 1..Len(call.routes) : RouteFits(i))
        => LET first == CHOOSE i \in 1..Len(call.routes) :
                            RouteFits(i) /\ \A j \in 1..(i - 1) : ~RouteFits(j)
           IN /\ call.invoked = <<first>>
              /\ call.phase = "done"
                    => call.response = Some(Response_new(call.routes[first].handler.status))

\* Two GET routes with the same pattern and different handlers: the first answered.
C18_SamePatternTwice ==
    /\ Routed /\ call.phase = "done"
    /\ Len(call.routes) = 2
    /\ call.routes[1].method = STR_GET /\ call.routes[2].method = STR_GET
    /\ call.routes[1].pattern = call.routes[2].pattern
    /\ call.routes[1].handler.status = 200
    /\ call.routes[2].handler.status = 202
    /\ call.invoked = <<1>>
    /\ Unwrap(call.response).status = 200

\* C19: Router::route ends with 404 Not Found and no handler invoked if and
\* only if no registered route has the request's method and a matching pattern.
C19_NotFoundIffNoMatch ==
    (Routed /\ call.phase = "done")
        => ((call.invoked = <<>> /\ call.response = Some(Response_new(404)))
               <=> ~\E i \in 1..Len(call.routes) : RouteFits(i))

\* The path is registered, under another method only: 404 and no handler invoked.
C19_OtherMethodOnly ==
    /\ Routed /\ call.phase = "done"
    /\ Len(call.routes) = 1
    /\ call.routes[1].method = STR_GET
    /\ call.routes[1].pattern = Pattern_parse(PATH_a)
    /\ Unwrap(call.request).method = STR_POST
    /\ Unwrap(call.request).path = PATH_a
    /\ call.invoked = <<>>
    /\ Unwrap(call.response).status = 404

(***************************************************************************)
(* Claims about Response::into_bytes (under ResponseSpec).                 *)
(***************************************************************************)
\* How many header lines of the serialized message m have the given name.
HeaderLines(m, name) ==
    Cardinality({i \in 1..Len(m.lines) : eq_ignore_ascii_case(m.lines[i][1], name)})

\* C20: every serialized response carries exactly one Content-Length header
\* line and exactly one Connection header line, whatever header, add_header,
\* keep_alive and body calls were made on the Response before.
C20_OneContentLengthOneConnection ==
    (call.f = "response" /\ IsSome(call.bytes))
        => /\ HeaderLines(Unwrap(call.bytes), STR_Content_Length) = 1
           /\ HeaderLines(Unwrap(call.bytes), STR_Connection) = 1

\* The index of the first byte of the first empty line of b ("\r\n\r\n"), 0 when
\* b holds none.
BlankLine(b) ==
    IF \E i \in 1..(Len(b) - 3) : SubSeq(b, i, i + 3) = CRLF \o CRLF
    THEN CHOOSE i \in 1..(Len(b) - 3) :
            /\ SubSeq(b, i, i + 3) = CRLF \o CRLF
            /\ \A j \in 1..(i - 1) : SubSeq(b, j, j + 3) # CRLF \o CRLF
    ELSE 0

\* The values of the Content-Length lines in the head of b, the bytes before its
\* first empty line: what follows "\r\nContent-Length: " up to the end of the line.
ContentLengthValues(b) ==
    LET start == CRLF \o STR_Content_Length \o STR_colon_sp
        head == SubSeq(b, 1, BlankLine(b) + 1)
    IN { SubSeq(head, i + Len(start), j - 1) :
            <<i, j>> \in { p \in (1..Len(head)) \X (1..Len(head)) :
                /\ p[1] + Len(start) <= p[2]
                /\ SubSeq(head, p[1], p[1] + Len(start) - 1) = start
                /\ head[p[2]] = 13
                /\ \A k \in (p[1] + Len(start))..(p[2] - 1) : head[k] # 13 } }

\* C21: for every Response with body B, the bytes into_bytes returns hold a
\* Content-Length line whose value reads as len(B), and the bytes after the first
\* empty line are exactly B (none when B is empty).
C21_RoundTrip ==
    (call.f = "response" /\ IsSome(call.bytes))
        => /\ BlankLine(call.buf) # 0
           /\ \E v \in ContentLengthValues(call.buf) : ParseUsize(v) = Some(Len(call.r.body))
           /\ SubSeq(call.buf, BlankLine(call.buf) + 4, Len(call.buf)) = call.r.body

\* A Response with a caller's header and a body that holds an empty line of its
\* own was serialized.
C21_BodyWithBlankLine ==
    /\ call.f = "response" /\ IsSome(call.bytes)
    /\ BlankLine(call.r.body) # 0
    /\ Len(call.calls) = 2 /\ call.calls[1] = "header"

(***************************************************************************)
(* Claims about Headers (under HeadersSpec).                               *)
(***************************************************************************)
IsAsciiLetter(b) == (b >= 65 /\ b <= 90) \/ (b >= 97 /\ b <= 122)

\* The names a and b differ at most in the case of ASCII letters.
DifferOnlyInCase(a, b) ==
    /\ Len(a) = Len(b)
    /\ \A i \in 1..Len(a) :
          \/ a[i] = b[i]
          \/ IsAsciiLetter(a[i]) /\ IsAsciiLetter(b[i]) /\ (a[i] - b[i] = 32 \/ b[i] - a[i] = 32)

\* C22: in every map reached by insert and remove calls, get, get_all, contains
\* and remove give the same result for two names that differ only in the case
\* of ASCII letters.
C22_CaseInsensitive ==
    call.f = "headers" =>
        \A a, b \in MapNames :
            DifferOnlyInCase(a, b) =>
                /\ Headers_get(call.inner, a) = Headers_get(call.inner, b)
                /\ Headers_get_all(call.inner, a) = Headers_get_all(call.inner, b)
                /\ Headers_contains(call.inner, a) = Headers_contains(call.inner, b)
                /\ Headers_remove(call.inner, a) = Headers_remove(call.inner, b)

\* get(`Ab`) found the value of an entry inserted as `aB`, in a map that also
\* holds an entry named `Ab` after it.
C22_FoundInOtherCasing ==
    /\ call.f = "headers" /\ call.op = "get" /\ call.name = <<65, 98>>
    /\ call.inner = << <<<<97, 66>>, <<49>>>>, <<<<97, 64>>, <<49>>>>, <<<<65, 98>>, <<50>>>> >>
    /\ call.result = Some(Some(<<49>>))

\* The entries of h whose name matches, and those whose name does not, in order.
Matching(h, name) == SelectSeq(h, LAMBDA e : eq_ignore_ascii_case(e[1], name))
Others(h, name) == SelectSeq(h, LAMBDA e : ~eq_ignore_ascii_case(e[1], name))

\* C23: insert appends one entry and changes no existing one; get returns the
\* value of the first matching entry and get_all the values of all matching
\* entries in insertion order; remove deletes every matching entry, returns true
\* exactly when there was one, and leaves the others in their order.
C23_InsertionOrderedMultiMap ==
    [][(call.f = "headers" /\ call'.f = "headers") =>
        /\ call'.op = "insert" =>
              /\ Len(call'.inner) = Len(call.inner) + 1
              /\ SubSeq(call'.inner, 1, Len(call.inner)) = call.inner
              /\ call'.inner[Len(call'.inner)] = <<call'.name, call'.value>>
        /\ call'.op = "get" =>
              /\ call'.inner = call.inner
              /\ call'.result = Some(IF Matching(call.inner, call'.name) = <<>> THEN None
                                     ELSE Some(Matching(call.inner, call'.name)[1][2]))
        /\ call'.op = "get_all" =>
              /\ call'.inner = call.inner
              /\ call'.result = Some([i \in 1..Len(Matching(call.inner, call'.name)) |->
                                        Matching(call.inner, call'.name)[i][2]])
        /\ call'.op = "remove" =>
              /\ call'.inner = Others(call.inner, call'.name)
              /\ call'.result = Some(Matching(call.inner, call'.name) # <<>>)
    ]_vars

\* remove(`Ab`) removed two entries, the first and the third of four, and left
\* the other two in their order.
C23_RemovedTwoOfFour ==
    /\ call.f = "headers" /\ call.op = "remove" /\ call.name = <<65, 98>>
    /\ call.ops = 4
    /\ call.result = Some(TRUE)
    /\ call.inner = << <<<<97, 64>>, <<50>>>>, <<<<97, 64>>, <<49>>>> >>

(***************************************************************************)
(* Claims about Pattern (under PatternSpec).                               *)
(***************************************************************************)
\* A pattern matched against a path: the state after pattern.matches(path).
Matched == call.f = "pattern" /\ IsSome(call.path)

\* s without its last byte when that is a slash and s is not the bare root.
Normalized(s) ==
    IF Len(s) > 1 /\ s[Len(s)] = 47 THEN SubSeq(s, 1, Len(s) - 1) ELSE s

\* C24: for a non-empty pattern p not ending in a slash, Pattern::parse(p + "/")
\* and Pattern::parse(p) give the same result on every path, captures included;
\* for every pattern and every non-empty path q not ending in a slash,
\* matches(q + "/") equals matches(q); the bare root "/" is left as it is, as a
\* pattern (it matches "/" and not the empty path) and as a path (an exact
\* pattern matches it only when it is "/" itself).
C24_TrailingSlash ==
    Matched =>
        /\ (call.raw # <<>> /\ call.raw[Len(call.raw)] # 47) =>
                Pattern_matches(Pattern_parse(call.raw \o <<47>>), Unwrap(call.path))
                    = Unwrap(call.result)
        /\ (Unwrap(call.path) # <<>> /\ Unwrap(call.path)[Len(Unwrap(call.path))] # 47) =>
                Pattern_matches(call.pattern, Unwrap(call.path) \o <<47>>) = Unwrap(call.result)
        /\ call.raw = <<47>> =>
                /\ call.pattern.tag = "Exact" /\ call.pattern.s = <<47>>
                /\ Unwrap(call.path) = <<47>> => IsSome(Unwrap(call.result))
                /\ Unwrap(call.path) = <<>> => Unwrap(call.result) = None
        /\ (Unwrap(call.path) = <<47>> /\ call.pattern.tag = "Exact") =>
                (IsSome(Unwrap(call.result)) <=> call.raw \in {<<47>>, <<47, 47>>})

\* `/a/:id/` was matched against `/a/x`: the pattern lost its trailing slash and
\* `id` is bound to `x`.
C24_SlashOnPatternOnly ==
    /\ Matched
    /\ call.raw = PATH_a_id_slash /\ call.path = Some(PATH_a_x)
    /\ call.result = Some(Some({<<<<105, 100>>, <<120>>>>}))

\* The pattern raw is parameterized: it holds a ':' and is no wildcard pattern.
IsParameterizedPattern(raw) ==
    /\ \E i \in 1..Len(raw) : raw[i] = 58
    /\ ~ends_with(Normalized(raw), STR_slash_star)

\* The segments of s: the non-empty pieces between its slashes.
PiecesOf(s) == SelectSeq(split(Normalized(s), 47), LAMBDA x : x # <<>>)

\* The positions of the capture segments among the segments ps.
Captures(ps) == {i \in 1..Len(ps) : ps[i][1] = 58}

\* C25: a parameterized pattern matches a path if and only if both have the
\* same number of segments and every literal segment equals the path segment at
\* its position; on a match the captures are exactly one binding per capture
\* segment, of its name to the path segment at its position.
C25_Parameterized ==
    (Matched /\ IsParameterizedPattern(call.raw)) =>
        LET ps == PiecesOf(call.raw)
            qs == PiecesOf(Unwrap(call.path))
            fits == /\ Len(ps) = Len(qs)
                    /\ \A i \in (1..Len(ps)) \ Captures(ps) : ps[i] = qs[i]
        IN /\ IsSome(Unwrap(call.result)) <=> fits
           /\ fits =>
                /\ Unwrap(Unwrap(call.result))
                      = {<<SubSeq(ps[i], 2, Len(ps[i])), qs[i]>> : i \in Captures(ps)}
                /\ Cardinality(Unwrap(Unwrap(call.result))) = Cardinality(Captures(ps))

\* The pattern raw is `P/*`, with or without one more slash after it.
IsWildcardPattern(raw) == ends_with(Normalized(raw), STR_slash_star)

\* The P of the wildcard pattern raw.
WildcardPrefix(raw) == SubSeq(Normalized(raw), 1, Len(Normalized(raw)) - 2)

\* C26: a wildcard pattern `P/*` matches a path if and only if the normalized
\* path starts with P, and then binds `wildcard`, and nothing else, to the rest
\* of the normalized path after P, a leading slash included.
C26_Wildcard ==
    (Matched /\ IsWildcardPattern(call.raw)) =>
        LET P == WildcardPrefix(call.raw)
            path == Normalized(Unwrap(call.path))
        IN IF Len(path) >= Len(P) /\ SubSeq(path, 1, Len(P)) = P
           THEN Unwrap(call.result)
                    = Some({<<STR_wildcard, SubSeq(path, Len(P) + 1, Len(path))>>})
           ELSE Unwrap(call.result) = None

\* `/a/*` was matched against `/a/x/y` and bound `wildcard` to `/x/y`.
C26_RestWithLeadingSlash ==
    /\ Matched
    /\ call.raw = PATH_a_star /\ call.path = Some(PATH_a_x_y)
    /\ call.result = Some(Some({<<STR_wildcard, <<47, 120, 47, 121>>>>}))

(***************************************************************************)
(* Claims about Extensions (under ExtensionsSpec).                         *)
(***************************************************************************)
\* The values the store holds for type T.
Stored(map, T) == {kv[2].v : kv \in {e \in map : e[1] = T}}

\* Some(the value held for T), None when there is none.
StoredOption(map, T) == IF Stored(map, T) = {} THEN None ELSE Some(CHOOSE v \in Stored(map, T) : TRUE)

\* C28: after any sequence of insert, remove and get_mut calls the store holds
\* at most one value per type; insert::<T> returns the T stored before (None if
\* absent) and stores the new one, remove::<T> returns the stored T and leaves T
\* absent, and a call keyed by T never changes what is stored for another type.
C28_OnePerType ==
    [][(call.f = "extensions" /\ call'.f = "extensions") =>
        /\ \A T \in TypeIds :
              /\ Cardinality(Stored(call'.map, T)) <= 1
              /\ Cardinality({kv \in call'.map : kv[1] = T}) <= 1
              /\ T # call'.type => Stored(call'.map, T) = Stored(call.map, T)
        /\ call'.op = "insert" =>
              /\ call'.result = Some(StoredOption(call.map, call'.type))
              /\ Stored(call'.map, call'.type) = {call'.value}
        /\ call'.op = "remove" =>
              /\ call'.result = Some(StoredOption(call.map, call'.type))
              /\ Stored(call'.map, call'.type) = {}
        /\ call'.op = "get_mut" =>
              /\ call'.result = Some(StoredOption(call.map, call'.type))
              /\ Stored(call'.map, call'.type)
                    = IF Stored(call.map, call'.type) = {} THEN {} ELSE {call'.value}
        /\ call'.op \in {"get", "contains"} => call'.map = call.map
    ]_vars

\* insert::<u32>(2) returned the 1 stored before, in a store that also holds a
\* str and a bool.
C28_ReplacedAmongOthers ==
    /\ call.f = "extensions" /\ call.op = "insert" /\ call.type = "u32"
    /\ call.value = 2 /\ call.result = Some(Some(1))
    /\ Stored(call.map, "u32") = {2}
    /\ Stored(call.map, "str") # {} /\ Stored(call.map, "bool") # {}

(***************************************************************************)
(* Claims about the query parameters of a Request (under QuerySpec).       *)
(***************************************************************************)
\* The key and the value each pair stands for, '+' read as a space and a pair
\* without '=' as a key with the empty value.
DecodedPair(pair) ==
    CASE pair = PAIR_a_1 -> <<<<97>>, <<49>>>>
      [] pair = PAIR_a_2 -> <<<<97>>, <<50>>>>
      [] pair = PAIR_b_1 -> <<<<98>>, <<49>>>>
      [] pair = PAIR_a -> <<<<97>>, <<>>>>
      [] pair = PAIR_ab -> <<<<97, 32, 98>>, <<49, 32, 50>>>>
      [] pair = PAIR_a_1_2 -> <<<<97>>, <<49, 61, 50>>>>
      [] pair = PAIR_empty -> <<<<>>, <<>>>>
      [] pair = PAIR_eq_1 -> <<<<>>, <<49>>>>

\* The positions of the pairs of the query string that carry the key.
Occurrences(key) == {i \in 1..Len(call.pairs) : DecodedPair(call.pairs[i])[1] = key}

Greatest(S) == CHOOSE i \in S : \A j \in S : j <= i

Least(S) == CHOOSE i \in S : \A j \in S : i <= j

\* The query string as sent: the bytes of the target after its '?'.
SentQuery == SubSeq(call.wire, Len(WIRE_GET_s) + 2, Len(call.wire) - Len(WIRE_HTTP11_end))

\* C29: query_param(key) returns the value of the last pair that carries the
\* key, None when no pair does, with '+' decoded as a space in keys and values
\* and the empty string for a pair without '='; query_string() returns the raw
\* string with every pair.
C29_LastWinsRawKept ==
    (call.f = "query") =>
        /\ call.parsed.tag = "Ok"
        /\ call.op = "query_param" =>
              call.result = Some(IF Occurrences(call.key) = {} THEN None
                                 ELSE Some(DecodedPair(call.pairs[Greatest(Occurrences(call.key))])[2]))
        /\ call.op = "query_string" =>
              call.result = Some(IF call.pairs = <<>> THEN None ELSE Some(SentQuery))

\* `a=1&a`: the lookup of `a` gave the empty value of the later pair, which has
\* no '='.
C29_LaterPairWithoutValue ==
    /\ call.f = "query" /\ call.op = "query_param"
    /\ call.pairs = <<PAIR_a_1, PAIR_a>> /\ call.key = <<97>>
    /\ call.result = Some(Some(<<>>))

\* The key looked up occurs in several pairs of the query string.
RepeatedKey == call.f = "query" /\ call.op = "query_param" /\ Cardinality(Occurrences(call.key)) > 1

\* C30, as the spec's data model states it: on a repeated key query_param(key)
\* returns the value of the first occurrence.
C30_FirstOccurrenceWins ==
    RepeatedKey => call.result = Some(Some(DecodedPair(call.pairs[Least(Occurrences(call.key))])[2]))

\* C30, amended: on a repeated key query_param(key) returns the value of the
\* last occurrence.
C30_LastOccurrenceWins ==
    RepeatedKey => call.result = Some(Some(DecodedPair(call.pairs[Greatest(Occurrences(call.key))])[2]))

\* `a=1&a=2`: the lookup of `a` gave `2`.
C30_SecondOfTwo ==
    /\ RepeatedKey
    /\ call.pairs = <<PAIR_a_1, PAIR_a_2>> /\ call.key = <<97>>
    /\ call.result = Some(Some(<<50>>))

(***************************************************************************)
(* Claims about the read loop of handle_connection                         *)
(***************************************************************************)

\* The task of connection c awaits a read after the codec parsed the header
\* block of the request at the front of the buffer and the body was found short.
AwaitingBody(c) ==
    pc[c] = "read" /\ last[c].op = "read" /\ last[c].result = "await_body"

\* C31: once the header block of a request has parsed and the engine waits for
\* the rest of the body, a further read appends the bytes read to the buffer
\* and does not invoke the codec again.
C31_HeadersParsedOnce ==
    [][\A c \in Conns :
          (AwaitingBody(c) /\ ReadStep(c))
             => /\ buf'[c] = buf[c] \o SubSeq(script[c], rcvd[c] + 1, rcvd'[c])
                /\ ~last'[c].parsed]_vars

\* The step of connection c is one of the ways out of the loop the claim names:
\* a read of zero bytes, an I/O error of the transport, the write of the 413 or
\* 400 response, or the flush of the response to a request whose keep-alive
\* determination is false.
NamedEnding(c) ==
    \/ pc[c] = "read" /\ last'[c].op = "read" /\ last'[c].result = "eof"
    \/ last'[c].op = "io_error"
    \/ /\ pc[c] = "write_final"
       /\ out'[c] = Append(out[c], Unwrap(pending[c]))
       /\ Unwrap(pending[c]).status_line[1] \in {400, 413}
    \/ FlushStep(c) /\ ~is_keep_alive(Unwrap(req[c]))

\* C32: the task of a connection ends only by a read of zero bytes, an I/O
\* error, a written 400 or 413, or a written response to a request whose
\* keep-alive determination is false; every other step leaves it running.
C32_EndsOnlyAsNamed ==
    [][\A c \in Conns : (~Ended(c) /\ Ended(c)') => NamedEnding(c)]_vars

\* The Connection header of the response connection c wrote last.
WrittenConnection(c) == Headers_get(out[c][Len(out[c])].lines, STR_connection)

\* C33: once a response is written (and, for a handler's response, flushed), it
\* says `Connection: close` exactly when the engine closed the connection and
\* `Connection: keep-alive` exactly when the engine is back in Reading.
C33_ConnectionHeaderAgrees ==
    \A c \in Conns :
        last[c].op \in {"flush", "write_final"}
            => /\ WrittenConnection(c) = Some(STR_close) <=> pc[c] = "closed"
               /\ WrittenConnection(c) = Some(STR_keep_alive) <=> pc[c] = "read"

\* C34: whenever the handler is invoked, the body of its Request is exactly the
\* declared Content-Length bytes behind the header terminator, and empty when
\* no Content-Length is declared: no byte of a following request is in it.
C34_BodyIsDeclaredBytes ==
    \A c \in Conns :
        pc[c] = "handler"
            => LET r == Unwrap(req[c])
                   body_offset == Len(buf[c]) - Len(r.body)
               IN r.body = SubSeq(buf[c], body_offset + 1, body_offset + DeclaredLength(r))

\* C35: the task of a connection never panics: for a request in dispatch
\* total_needed is the sum body_offset + Content-Length itself, not a wrapped
\* value, and it is at most the length of the buffer split_to is called on.
C35_NoPanicNoOverflow ==
    \A c \in Conns :
        /\ pc[c] # "panicked"
        /\ pc[c] \in {"handler", "write", "flush"}
              => LET r == Unwrap(req[c])
                     body_offset == Len(buf[c]) - Len(r.body)
                 IN /\ loc[c].total_needed = body_offset + DeclaredLength(r)
                    /\ loc[c].total_needed <= Len(buf[c])

\* C36: whenever the codec ran on the buffer or a request is in dispatch, the
\* buffer holds at most MAX_REQUEST_SIZE bytes, leftover bytes of earlier
\* requests included; a buffer above the cap came out of a read that took the
\* 413 branch, and nothing but the 413 write, an I/O error or the end follows.
C36_BufferWithinCap ==
    \A c \in Conns :
        /\ (last[c].op = "read" /\ last[c].parsed) => Len(buf[c]) <= MAX_REQUEST_SIZE
        /\ pc[c] \in {"read", "handler", "write", "flush"}
              => Len(buf[c]) <= MAX_REQUEST_SIZE
        /\ Len(buf[c]) > MAX_REQUEST_SIZE
              => /\ pc[c] \in {"write_final", "closed", "failed"}
                 /\ last[c].op = "read" => (last[c].result = "too_large" /\ ~last[c].parsed)
                 /\ Unwrap(pending[c]) = into_bytes(TooLargeResponse)

\* A request of exactly MAX_REQUEST_SIZE bytes went through the codec and is
\* with the handler.
C36_DispatchedAtCap ==
    \E c \in Conns :
        /\ pc[c] = "handler"
        /\ Len(buf[c]) = MAX_REQUEST_SIZE
        /\ last[c].op = "read" /\ last[c].parsed

\* A first request was answered with a byte of the next one left in the buffer,
\* and the buffer then grew past the cap: the read went to the 413 branch.
C36_LeftoverThenTooLarge ==
    \E c \in Conns :
        /\ pc[c] = "write_final"
        /\ Len(buf[c]) > MAX_REQUEST_SIZE
        /\ Len(out[c]) = 1
        /\ Len(buf[c]) + Len(Req0(WIRE_GET11, <<>>)) = rcvd[c]

\* The request r has a Content-Length header whose value is no usize.
UnparseableLength(r) ==
    Headers_contains(r.headers, STR_content_length) /\ content_length(r) = None

\* C37: a request whose Content-Length does not parse is dispatched as soon as
\* its header block is in the buffer, with total_needed = body_offset; the
\* flush of its response removes the header block and nothing else; and the
\* next read runs the codec on the bytes that were behind the header block
\* followed by the bytes read.
C37_UnparseableLengthIsZero ==
    [][\A c \in Conns :
          LET p == Request_parse(buf'[c]) IN
          /\ (ReadStep(c) /\ Len(buf'[c]) <= MAX_REQUEST_SIZE
                 /\ p.tag = "Ok" /\ UnparseableLength(p.request))
                => /\ pc'[c] = "handler"
                   /\ req'[c] = Some(p.request)
                   /\ loc'[c].total_needed = p.body_offset
          /\ (FlushStep(c) /\ UnparseableLength(Unwrap(req[c])))
                => buf'[c] = Unwrap(req[c]).body
          /\ (ReadStep(c) /\ last[c].op = "flush" /\ UnparseableLength(Unwrap(req[c])))
                => /\ buf'[c] = buf[c] \o SubSeq(script[c], rcvd[c] + 1, rcvd'[c])
                   /\ last'[c].parsed]_vars

\* The response to a request with `Content-Length: x` is written, one byte that
\* came with the header block is left in the buffer, and the read after it ran
\* the codec on that byte and the next: the two are held as the start of a request.
C37_FollowingBytesAreNextRequest ==
    \E c \in Conns :
        /\ pc[c] = "read" /\ last[c].op = "read" /\ last[c].parsed
        /\ Len(out[c]) = 1
        /\ UnparseableLength(Unwrap(req[c]))
        /\ buf[c] = WIRE_hi
        /\ last[c].result = "incomplete"

\* What holds of the writes of connection c whatever way its task ended: at
\* most one error response is written, it is a 400 or a 413, it is the last
\* thing the task did, and a task that awaits a read has written and flushed
\* one response for every handler invocation.
WritesInOrder(c) ==
    /\ Count(trace[c], "write_final") <= 1
    /\ \A i \in 1..Len(trace[c]) :
          trace[c][i] = "write_final"
             => /\ i = Len(trace[c])
                /\ pc[c] = "closed"
                /\ out[c][Len(out[c])].status_line[1] \in {400, 413}
    /\ Len(out[c]) = Count(trace[c], "write") + Count(trace[c], "write_final")
    /\ pc[c] = "read"
          => /\ Count(trace[c], "write") = Count(trace[c], "invoke")
             /\ Count(trace[c], "flush") = Count(trace[c], "invoke")

\* The task of connection c is between the invocation of a handler and the
\* write of its response.
InDispatch(c) == pc[c] \in {"handler", "write"}

\* The task of connection c ended on an I/O error of the write of a handler's response.
WriteFailed(c) == pc[c] = "failed" /\ last[c].op = "io_error" /\ last[c].result = "write"

\* C38 as stated: outside a dispatch the number of responses written is the
\* number of handler invocations plus the error responses written, of which
\* there is at most one, the last write of the connection.
C38_OneResponsePerInvocation ==
    \A c \in Conns :
        /\ WritesInOrder(c)
        /\ Len(out[c]) = Count(trace[c], "invoke") + Count(trace[c], "write_final")
                            - (IF InDispatch(c) THEN 1 ELSE 0)

\* C38 amended: the same, but for a task that ended on an I/O error of the
\* write of a handler's response: its last invocation has no written response.
C38_OneResponsePerInvocationUnlessWriteFails ==
    \A c \in Conns :
        /\ WritesInOrder(c)
        /\ Len(out[c]) = Count(trace[c], "invoke") + Count(trace[c], "write_final")
                            - (IF InDispatch(c) \/ WriteFailed(c) THEN 1 ELSE 0)

\* A handler's response and then a 413 were written on a connection that
\* invoked its handler once; the 413 is the last entry of the trace.
C38_AnswerThenTooLarge ==
    \E c \in Conns :
        /\ pc[c] = "closed"
        /\ Len(out[c]) = 2
        /\ Count(trace[c], "invoke") = 1
        /\ out[c][2].status_line[1] = 413
        /\ trace[c][Len(trace[c])] = "write_final"

(***************************************************************************)
(* Claims about the allow-list of CorsMiddleware (under PipelineSpec).     *)
(***************************************************************************)
\* The origins the allow_origin calls on CorsMiddleware::new() named.
NamedOrigins(cors) == Tail(cors.allowed_origins)

\* cors is CorsMiddleware::new() followed by allow_origin calls, one at least,
\* none of which names "*".
NamesSpecificOrigins(cors) ==
    /\ Len(cors.allowed_origins) > 1
    /\ cors.allowed_origins[1] = CorsMiddleware_new.allowed_origins[1]
    /\ ~Contains(NamedOrigins(cors), STR_star)

\* The Origin of the request of the pass, None without one.
RequestOrigin == Headers_get(call.request.headers, STR_origin)

\* A CorsMiddleware that names specific origins is the innermost unit of the
\* pass, in the given mode, and the request has an Origin.
SpecificCors(mode) ==
    /\ InPass /\ call.mode = mode /\ call.stack # <<>>
    /\ TopUnit.kind = "cors"
    /\ NamesSpecificOrigins(TopUnit.cors)
    /\ IsSome(RequestOrigin)

\* C39: a CorsMiddleware::new() with allow_origin calls for specific origins
\* forwards a request whose Origin is none of them and returns the downstream
\* response as it got it, with no Access-Control-* header added; for a request
\* whose Origin is one of them the response it returns says
\* `Access-Control-Allow-Origin: <that origin>` and `Vary: Origin`.
C39_OnlyNamedOriginsAccepted ==
    [][LET listed == Contains(NamedOrigins(TopUnit.cors), Unwrap(RequestOrigin))
           r == Unwrap(call'.response)
       IN /\ (SpecificCors("unit") /\ ~listed) => Forwards
          /\ (SpecificCors("return") /\ ~listed) => call'.response = call.response
          /\ (SpecificCors("unit") /\ listed /\ call.request.method = STR_OPTIONS)
                => /\ call'.mode = "return"
                   /\ Headers_get(r.headers, STR_ACA_Origin) = RequestOrigin
                   /\ Headers_get(r.headers, STR_Vary) = Some(STR_Origin)
          /\ (SpecificCors("return") /\ listed)
                => /\ Headers_get(r.headers, STR_ACA_Origin) = RequestOrigin
                   /\ Headers_get(r.headers, STR_Vary) = Some(STR_Origin)]_vars

(***************************************************************************)
(* Claims about the boundary of a wildcard match (under PatternSpec).      *)
(***************************************************************************)
\* The wildcard pattern of the call matched its path.
WildcardMatched ==
    Matched /\ IsWildcardPattern(call.raw) /\ IsSome(Unwrap(call.result))

\* The value the match of the call bound to `wildcard`.
WildcardValue ==
    LET params == Unwrap(Unwrap(call.result)) IN
    (CHOOSE kv \in params : kv[1] = STR_wildcard)[2]

\* The normalized path of the call goes on after P inside a segment: the byte
\* behind P is no slash.
ContinuesSegment ==
    LET P == WildcardPrefix(call.raw)
        path == Normalized(Unwrap(call.path))
    IN starts_with(path, P) /\ Len(path) > Len(P) /\ path[Len(P) + 1] # 47

=============================================================================
